---- MODULE Spec2Model ----
(***************************************************************************)
(* Credit ledger of CircleMakerProBot (src/bot.py).                        *)
(*                                                                         *)
(* The ledger is the sqlite tables credits/freebies/stats/users guarded by *)
(* one asyncio.Lock (db_lock).  Every "async with db_lock:" block contains *)
(* no await, so each block is one atomic step; a handler is a sequence of  *)
(* such blocks and of awaits on external services, and other handlers and  *)
(* the wall clock may move between any two of them.                        *)
(*                                                                         *)
(* Specifications:                                                         *)
(*   Spec         the ledger functions called concurrently (as admin_cb,   *)
(*                show_user_detail and the conversion handlers call them)  *)
(*   SpecSerial   the same calls one at a time: only the clock moves        *)
(*                between the lock sections of a call                      *)
(*   SpecReserve  NReserve concurrent db_deduct_video_credit calls         *)
(*   SpecVideo    handle_video beside admin ledger calls                   *)
(*   SpecFree     free_cmd                                                 *)
(*   SpecMedia    handle_video and handle_voice beside admin grants        *)
(*   SpecAdmin    admin_cmd, menu_click, admin_cb and admin_step_handler   *)
(*   SpecSync     the synchronous ledger of src/db.py, called from threads  *)
(*   SpecStorage  handle_video with failing sqlite writes, and admin grants *)
(*   SpecPremium  list_premium over tables of three accounts                *)
(*   SpecSyncPremium  DB.list_premium of src/db.py over three wallets       *)
(*   SpecFair     the ledger functions called concurrently, each task      *)
(*                scheduled fairly                                         *)
(*   SpecBroadcast  the broadcast of admin_step_handler beside the updates *)
(*                of other users                                           *)
(***************************************************************************)
EXTENDS Integers, FiniteSets, Sequences, TLC

\* ------------------------------------------------------------------ bounds
NReserve == 3
MaxClock == 1
MaxDays == 1
MaxAmount == 2
MaxBalance == 2
MaxVideos == 1
MaxVoices == 1
NRegistered == 51
MaxVisits == 1
MaxFailed == 1

\* ------------------------------------------------------- program constants
CREDITS_PER_VIDEO == 1
FREE_CREDITS == 2
DAY == 86400
NULL == -1

\* One account under contention (every statement is WHERE user_id = ?), and
\* two handlers running at once.
UserIds == {1}
Tasks == {1, 2}
Amounts == 1..MaxAmount
DaysInput == 0..MaxDays
\* Senders of admin updates: 1 is an ordinary user, 2 and 3 are in ADMIN_IDS.
Callers == {1, 2, 3}
ADMIN_IDS == {2, 3}

\* The callback actions of admin_cb that are modelled ("menu" stands for the
\* read-only ones), and the days of the "Valid" buttons (all positive).
AdminActions ==
    {"menu", "user", "add", "rem", "valid", "valid_remove", "custom_credit",
     "custom_valid", "broadcast"}
DaysButtons == 1..MaxDays

\* Message texts sent while a wizard step is pending, as character sequences.
Texts ==
    {<<"0">>, <<"1">>, <<"-", "2">>, <<"x">>, <<"a", "1", "b", "2">>}

\* No entry in the dict admin_steps.
NoStep == [type |-> "-", target |-> 0]

\* No broadcast is running.  pc: position in the branch; total, offset, batch,
\* sent, failed: its locals; attempts: the ids send_message was called for, in
\* order; registered: history, the rows of users when the branch started;
\* visits: history, the updates of other users handled since then.
NoBroadcast ==
    [pc |-> "idle", total |-> 0, offset |-> 0, batch |-> <<>>, sent |-> 0,
     failed |-> 0, attempts |-> <<>>, registered |-> {}, visits |-> 0]

\* db.py is called from the worker threads of the synchronous bot.
Threads == {1, 2}
Outcomes == {"ok", "error", "cancelled"}
OracleAnswers == {"member", "left", "error"}

VARIABLES
    now,          \* wall clock, now_ts()
    users,        \* ids with a row in table users
    rows,         \* ids with rows in credits, freebies and stats
    balance,      \* credits.balance
    valid_from,   \* credits.valid_from
    expires_at,   \* credits.expires_at
    claimed,      \* freebies.claimed
    videos_made,  \* stats.videos_made
    task,         \* the running handlers: position and locals of each
    snap,         \* history: balance before a task's reservation, NULL once
                  \* another task changed that balance
    freeTotal,    \* history: free credits ever added per account
    freeDone,     \* history: accounts for which a /free call ended "granted"
    initial,      \* history: balance of each account in the initial state
    voices_made,  \* stats.voices_made
    admin_steps,  \* the dict admin_steps: pending wizard step per admin
    wallet,       \* db.py: table wallet (credits and validity window)
    thread,       \* db.py: the threads calling DB methods, with their locals
    uncommitted,  \* open transaction of the connection db: credits deducted
                  \* per account by an UPDATE that no commit has followed
    last_seen,    \* table users in the order of "ORDER BY last_seen DESC",
                  \* kept for the broadcast
    broadcast     \* the broadcast branch of admin_step_handler: its position
                  \* and locals, and the delivery attempts made so far

vars == <<now, users, rows, balance, valid_from, expires_at, claimed,
          videos_made, task, snap, freeTotal, freeDone, initial, voices_made,
          admin_steps, wallet, thread, uncommitted, last_seen, broadcast>>

Max(a, b) == IF a >= b THEN a ELSE b

\* A task slot that runs no handler.  h/hpc: handler and its position;
\* fn/pc: the ledger function last called and the lock section it is at
\* ("-" once it has returned); u, amt, start: the function's arguments and
\* locals; ret: its return value; file: the update carries a video file_id.
\* exp0, res, ref, inc, ran, late, ans, out are history: the account's window
\* had passed when fn (other than a bare ensure_user) was called,
\* reservation succeeded, refunds credited,
\* usage counted, transcoder invoked, call began after a completed grant,
\* the oracle's answer, the handler's outcome.
\* who, act, tgt, text: the sender of an admin update, the action and target
\* of its callback data, the text of its message.
Idle ==
    [h |-> "idle", hpc |-> "-", fn |-> "-", pc |-> "-", u |-> 0, amt |-> 0,
     start |-> NULL, ret |-> FALSE, file |-> FALSE,
     exp0 |-> FALSE, res |-> FALSE, ref |-> 0, inc |-> FALSE, ran |-> FALSE,
     late |-> FALSE, ans |-> "-", out |-> "-",
     who |-> 0, act |-> "-", tgt |-> 0, text |-> <<>>]

\* db.py: a user without a row in table wallet, and the row that
\* "INSERT OR IGNORE INTO wallet(user_id)" creates (credits DEFAULT 0).
NoWallet ==
    [present |-> FALSE, credits |-> 0, validity_start |-> NULL,
     validity_expire |-> NULL]

\* db.py: a thread that runs no DB method.  fn/pc: the method and the
\* statement it is at; u, amt: its arguments; c: the credits its SELECT read;
\* tnow: its "now = int(time.time())"; ret: its return value; exp0 is history:
\* the wallet's window had passed when the method was called.
IdleThread ==
    [fn |-> "-", pc |-> "-", u |-> 0, amt |-> 0, c |-> 0, tnow |-> NULL,
     ret |-> FALSE, exp0 |-> FALSE]

\* ---------------------------------------------------------- pure helpers
\* is_admin: uid in ADMIN_IDS
is_admin_anyone(uid) == TRUE
is_admin(uid) == uid \in ADMIN_IDS

\* parse_int: int(re.findall(r"\d+", text)[0]); NULL stands for the
\* ValueError raised when the text holds no digit.
IsDigit(c) == c \in {"0", "1", "2", "3", "4", "5", "6", "7", "8", "9"}

DigitVal(c) ==
    CASE c = "0" -> 0 [] c = "1" -> 1 [] c = "2" -> 2 [] c = "3" -> 3
      [] c = "4" -> 4 [] c = "5" -> 5 [] c = "6" -> 6 [] c = "7" -> 7
      [] c = "8" -> 8 [] c = "9" -> 9

\* the leading run of digits of text, read as a decimal number after acc
RECURSIVE DigitRun(_, _)
DigitRun(text, acc) ==
    IF text = <<>> \/ ~IsDigit(Head(text)) THEN acc
    ELSE DigitRun(Tail(text), 10 * acc + DigitVal(Head(text)))

RECURSIVE parse_int(_)
parse_int(text) ==
    IF text = <<>> THEN NULL
    ELSE IF IsDigit(Head(text)) THEN DigitRun(text, 0)
    ELSE parse_int(Tail(text))

\* raw.startswith("-")
StartsWithMinus(text) == text # <<>> /\ Head(text) = "-"

\* cleanup_if_expired's test with ">" in place of ">="
ExpiredStrict(u) == expires_at[u] # NULL /\ now > expires_at[u]

\* cleanup_if_expired's test without the comparison with the clock
ExpiredAnyWindow(u) == expires_at[u] # NULL

\* cleanup_if_expired's test: exp is not None and now_ts() >= int(exp)
Expired(u) == expires_at[u] # NULL /\ now >= expires_at[u]

\* db_set_validity: end = start + int(days) * 86400
EndFromEpoch(start, days) == days * DAY
ValidityEnd(start, days) == start + days * DAY

\* db_add_credits: SET balance = balance + amount
AddOverwrites(bal, amount) == amount
NewBalAfterAdd(bal, amount) == bal + amount

\* db_remove_credits: new_bal = max(0, bal - amount)
RemoveNoFloor(bal, amount) == bal - amount
NewBalAfterRemove(bal, amount) == Max(0, bal - amount)

\* db_deduct_video_credit: "if bal < CREDITS_PER_VIDEO: return False"
DeductAlways(bal) == TRUE
CanDeduct(bal) == ~(bal < CREDITS_PER_VIDEO)

\* handle_video's refund: db_add_credits(user_id, CREDITS_PER_VIDEO)
RefundDouble == 2 * CREDITS_PER_VIDEO
RefundAmount == CREDITS_PER_VIDEO

\* is_user_subscribed: member.status in (...), False on TelegramError
SubscribedFailOpen(ans) == ans # "left"
IsUserSubscribed(ans) == ans = "member"

\* freebies_mark_claimed: UPDATE freebies SET claimed=1
MarkForgotten(c) == c
MarkedClaimed(c) == 1

\* INSERT OR REPLACE: the row holds the inserted value, present or not.
InsertOrReplace(present, old, new) == new

\* INSERT OR IGNORE: a row that is present keeps its value.
InsertOrIgnore(present, old, new) == IF present THEN old ELSE new

\* A handler that reads the pending step of caller c and leaves it in place.
Peeked(steps, c) == steps

\* admin_steps.pop(uid): the entry of caller c is removed.
Popped(steps, c) == [steps EXCEPT ![c] = NoStep]

\* The lock section that follows ensure_user in each ledger function.
AfterEnsure(f) ==
    IF f \in {"db_get_credit", "db_deduct_video_credit"} THEN "cleanup_if_expired"
    ELSE IF f = "ensure_user" THEN "-"
    ELSE "locked"

\* task t, now at handler position hpc, awaits ledger function f(u, a).
Call(t, hpc, f, u, a) ==
    [task[t] EXCEPT !.hpc = hpc, !.fn = f, !.pc = "ensure_user",
                    !.u = u, !.amt = a, !.start = NULL,
                    !.exp0 = f # "ensure_user" /\ u \in rows /\ Expired(u)]

\* task t leaves its ledger function with return value r.
Return(t, r) == [task[t] EXCEPT !.pc = "-", !.start = NULL, !.ret = r]

\* task t is in handler h at position hpc and awaits nothing.
At(t, h, hpc) == task[t].h = h /\ task[t].hpc = hpc /\ task[t].pc = "-"

\* db_lock: a task holds it from entering to leaving an "async with db_lock:"
\* block.  No such block contains an await, so a task is never suspended
\* inside one: at each position where it rests it has released the lock.
HoldsLockWhileConverting(t) ==
    /\ task[t].h = "handle_video"
    /\ task[t].hpc \in {"download", "transcode", "deliver"}

\* A ledger function that awaits ensure_user inside its own lock section.
HoldsLockAcrossEnsure(t) ==
    task[t].pc = "ensure_user" /\ task[t].fn # "ensure_user"

HoldsLock(t) == FALSE

\* "async with db_lock:" is entered by task t when no task holds the lock:
\* asyncio.Lock is not reentrant, so t waits also when t itself holds it.
LockFree(t) == \A x \in DOMAIN task : ~HoldsLock(x)

\* History: snap[t] is the balance t's db_deduct_video_credit read, until t's
\* handler ends.  This step sets snap[t] to own; a change of the balance of
\* another task's account by this step invalidates that task's snapshot.
SnapUpd(t, own) ==
    snap' = [x \in DOMAIN task |->
        IF x = t THEN own
        ELSE IF snap[x] # NULL /\ task[x].u \in UserIds
                /\ balance'[task[x].u] # balance[task[x].u]
        THEN NULL
        ELSE snap[x]]

\* db.commit(): the open transaction of the connection is made durable.
Commit == uncommitted' = [u \in UserIds |-> 0]

\* Column f of the tables credits, freebies and stats after ensure_user(u)
\* has inserted the value d for u (ids without a modelled row aside).
Inserted(f, u, d) ==
    IF u \in DOMAIN f
    THEN [f EXCEPT ![u] = InsertOrIgnore(u \in rows, @, d)]
    ELSE f

\* ------------------------------------------------------------------- Init
Init ==
    /\ now = 0
    /\ users = {}
    /\ rows = {}
    /\ balance = [u \in UserIds |-> 0]
    /\ valid_from = [u \in UserIds |-> NULL]
    /\ expires_at = [u \in UserIds |-> NULL]
    /\ claimed = [u \in UserIds |-> 0]
    /\ videos_made = [u \in UserIds |-> 0]
    /\ task = [t \in Tasks |-> Idle]
    /\ snap = [t \in Tasks |-> NULL]
    /\ freeTotal = [u \in UserIds |-> 0]
    /\ freeDone = {}
    /\ initial = [u \in UserIds |-> 0]
    /\ voices_made = [u \in UserIds |-> 0]
    /\ admin_steps = [c \in Callers |-> NoStep]
    /\ wallet = [u \in UserIds |-> NoWallet]
    /\ thread = [th \in Threads |-> IdleThread]
    /\ uncommitted = [u \in UserIds |-> 0]
    /\ last_seen = <<>>
    /\ broadcast = NoBroadcast

\* --------------------------------------------------------- the wall clock
Tick ==
    /\ now + DAY <= MaxClock * DAY
    /\ now' = now + DAY
    /\ UNCHANGED <<users, rows, balance, valid_from, expires_at, claimed,
                   videos_made, task, snap, freeTotal, freeDone, initial, voices_made, admin_steps, wallet, thread, uncommitted, last_seen, broadcast>>

\* ------------------------------------------- lock sections of the ledger
\* ensure_user: three INSERT OR IGNORE under db_lock.  db_set_validity reads
\* start = now_ts() right after it, before taking the lock again.
EnsureUser(t) ==
    /\ task[t].pc = "ensure_user"
    /\ LockFree(t)
    /\ rows' = rows \cup {task[t].u}
    /\ balance' = Inserted(balance, task[t].u, 0)
    /\ valid_from' = Inserted(valid_from, task[t].u, NULL)
    /\ expires_at' = Inserted(expires_at, task[t].u, NULL)
    /\ claimed' = Inserted(claimed, task[t].u, 0)
    /\ videos_made' = Inserted(videos_made, task[t].u, 0)
    /\ voices_made' = Inserted(voices_made, task[t].u, 0)
    /\ task' = [task EXCEPT ![t] =
          IF task[t].fn = "ensure_user" THEN Return(t, task[t].ret)
          ELSE [task[t] EXCEPT !.pc = AfterEnsure(task[t].fn),
                   !.start = IF task[t].fn = "db_set_validity" THEN now ELSE NULL]]
    /\ UNCHANGED <<now, users, freeTotal, freeDone, initial, admin_steps,
                   wallet, thread, last_seen, broadcast>>
    /\ Commit
    /\ SnapUpd(t, snap[t])

\* cleanup_if_expired: reset the row when the window has passed.
CleanupIfExpired(t) ==
    LET u == task[t].u IN
    /\ task[t].pc = "cleanup_if_expired"
    /\ LockFree(t)
    /\ IF u \in rows /\ Expired(u)
       THEN /\ balance' = [balance EXCEPT ![u] = 0]
            /\ valid_from' = [valid_from EXCEPT ![u] = NULL]
            /\ expires_at' = [expires_at EXCEPT ![u] = NULL]
            /\ Commit
       ELSE UNCHANGED <<balance, valid_from, expires_at, uncommitted>>
    /\ task' = [task EXCEPT ![t].pc = "locked"]
    /\ UNCHANGED <<now, users, rows, claimed, videos_made, freeTotal, freeDone,
                   initial, voices_made, admin_steps, wallet, thread, last_seen, broadcast>>
    /\ SnapUpd(t, snap[t])

\* db_get_credit: SELECT balance, valid_from, expires_at.
DbGetCredit(t) ==
    LET u == task[t].u IN
    /\ task[t].fn = "db_get_credit" /\ task[t].pc = "locked"
    /\ LockFree(t)
    /\ task' = [task EXCEPT ![t] =
          Return(t, IF u \in rows
                    THEN <<balance[u], valid_from[u], expires_at[u]>>
                    ELSE <<0, NULL, NULL>>)]
    /\ UNCHANGED <<now, users, rows, balance, valid_from, expires_at, claimed,
                   videos_made, freeTotal, freeDone, initial, voices_made, admin_steps, wallet, thread, uncommitted, last_seen, broadcast>>
    /\ SnapUpd(t, snap[t])

\* db_add_credits: UPDATE credits SET balance = balance + amount.
DbAddCredits(t) ==
    LET u == task[t].u IN
    /\ task[t].fn = "db_add_credits" /\ task[t].pc = "locked"
    /\ LockFree(t)
    /\ balance' = [balance EXCEPT ![u] =
          IF u \in rows THEN NewBalAfterAdd(@, task[t].amt) ELSE @]
    /\ task' = [task EXCEPT ![t] = Return(t, task[t].ret)]
    /\ UNCHANGED <<now, users, rows, valid_from, expires_at, claimed,
                   videos_made, freeTotal, freeDone, initial, voices_made, admin_steps, wallet, thread, last_seen, broadcast>>
    /\ Commit
    /\ SnapUpd(t, snap[t])

\* db_remove_credits: SELECT balance, then UPDATE to max(0, bal - amount).
DbRemoveCredits(t) ==
    LET u == task[t].u
        bal == IF u \in rows THEN balance[u] ELSE 0
    IN
    /\ task[t].fn = "db_remove_credits" /\ task[t].pc = "locked"
    /\ LockFree(t)
    /\ balance' = [balance EXCEPT ![u] =
          IF u \in rows THEN NewBalAfterRemove(bal, task[t].amt) ELSE @]
    /\ task' = [task EXCEPT ![t] = Return(t, task[t].ret)]
    /\ UNCHANGED <<now, users, rows, valid_from, expires_at, claimed,
                   videos_made, freeTotal, freeDone, initial, voices_made, admin_steps, wallet, thread, last_seen, broadcast>>
    /\ Commit
    /\ SnapUpd(t, snap[t])

\* db_set_validity: UPDATE credits SET valid_from=start, expires_at=end.
DbSetValidity(t) ==
    LET u == task[t].u
        start == task[t].start
        end == ValidityEnd(start, task[t].amt)
    IN
    /\ task[t].fn = "db_set_validity" /\ task[t].pc = "locked"
    /\ LockFree(t)
    /\ valid_from' = [valid_from EXCEPT ![u] = IF u \in rows THEN start ELSE @]
    /\ expires_at' = [expires_at EXCEPT ![u] = IF u \in rows THEN end ELSE @]
    /\ task' = [task EXCEPT ![t] = Return(t, task[t].ret)]
    /\ UNCHANGED <<now, users, rows, balance, claimed, videos_made, freeTotal,
                   freeDone, initial, voices_made, admin_steps, wallet, thread, last_seen, broadcast>>
    /\ Commit
    /\ SnapUpd(t, snap[t])

\* db_remove_validity: UPDATE credits SET valid_from=NULL, expires_at=NULL.
DbRemoveValidity(t) ==
    LET u == task[t].u IN
    /\ task[t].fn = "db_remove_validity" /\ task[t].pc = "locked"
    /\ LockFree(t)
    /\ valid_from' = [valid_from EXCEPT ![u] = NULL]
    /\ expires_at' = [expires_at EXCEPT ![u] = NULL]
    /\ task' = [task EXCEPT ![t] = Return(t, task[t].ret)]
    /\ UNCHANGED <<now, users, rows, balance, claimed, videos_made, freeTotal,
                   freeDone, initial, voices_made, admin_steps, wallet, thread, last_seen, broadcast>>
    /\ Commit
    /\ SnapUpd(t, snap[t])

\* db_deduct_video_credit: balance check and subtraction in one lock section.
DbDeductVideoCredit(t) ==
    LET u == task[t].u
        bal == IF u \in rows THEN balance[u] ELSE 0
    IN
    /\ task[t].fn = "db_deduct_video_credit" /\ task[t].pc = "locked"
    /\ LockFree(t)
    /\ IF CanDeduct(bal)
       THEN /\ balance' = [balance EXCEPT ![u] =
                  IF u \in rows THEN @ - CREDITS_PER_VIDEO ELSE @]
            /\ task' = [task EXCEPT ![t] = Return(t, TRUE)]
            /\ Commit
            /\ SnapUpd(t, bal)
       ELSE /\ UNCHANGED <<balance, uncommitted>>
            /\ task' = [task EXCEPT ![t] = Return(t, FALSE)]
            /\ SnapUpd(t, bal)
    /\ UNCHANGED <<now, users, rows, valid_from, expires_at, claimed,
                   videos_made, freeTotal, freeDone, initial, voices_made,
                   admin_steps, wallet, thread, last_seen, broadcast>>

\* The ways the writes of a lock section fail: execute raises and nothing is
\* changed; commit raises and sqlite has rolled the transaction back (disk
\* full, I/O error); commit raises and the transaction stays open (database
\* is locked).
StorageFailures == {"execute", "commit_rolled_back", "commit_busy"}

\* db_deduct_video_credit when its UPDATE or its db.commit() raises: there is
\* no try and no db.rollback(), so what the UPDATE wrote stays in the open
\* transaction of the one connection every function uses.  The exception
\* leaves "async with db_lock", db_deduct_video_credit and, line 763 being
\* outside the try block, handle_video.
DbDeductVideoCreditRaises(t) ==
    LET u == task[t].u
        bal == IF u \in rows THEN balance[u] ELSE 0
    IN
    /\ task[t].fn = "db_deduct_video_credit" /\ task[t].pc = "locked"
    /\ task[t].h = "handle_video"
    /\ LockFree(t)
    /\ u \in rows /\ CanDeduct(bal)
    /\ \E o \in StorageFailures :
          IF o = "commit_busy"
          THEN /\ balance' = [balance EXCEPT ![u] = @ - CREDITS_PER_VIDEO]
               /\ uncommitted' = [uncommitted EXCEPT ![u] = @ + CREDITS_PER_VIDEO]
          ELSE UNCHANGED <<balance, uncommitted>>
    /\ task' = [task EXCEPT ![t] =
          [Return(t, FALSE) EXCEPT !.hpc = "done", !.out = "storage_error"]]
    /\ SnapUpd(t, bal)
    /\ UNCHANGED <<now, users, rows, valid_from, expires_at, claimed,
                   videos_made, freeTotal, freeDone, initial, voices_made,
                   admin_steps, wallet, thread, last_seen, broadcast>>

\* freebies_is_claimed: SELECT claimed; True when the row says 1.
FreebiesIsClaimed(t) ==
    LET u == task[t].u IN
    /\ task[t].fn = "freebies_is_claimed" /\ task[t].pc = "locked"
    /\ LockFree(t)
    /\ task' = [task EXCEPT ![t] = Return(t, u \in rows /\ claimed[u] = 1)]
    /\ UNCHANGED <<now, users, rows, balance, valid_from, expires_at, claimed,
                   videos_made, freeTotal, freeDone, initial, voices_made, admin_steps, wallet, thread, uncommitted, last_seen, broadcast>>
    /\ SnapUpd(t, snap[t])

\* freebies_mark_claimed: UPDATE freebies SET claimed=1.
FreebiesMarkClaimed(t) ==
    LET u == task[t].u IN
    /\ task[t].fn = "freebies_mark_claimed" /\ task[t].pc = "locked"
    /\ LockFree(t)
    /\ claimed' = [claimed EXCEPT ![u] = IF u \in rows THEN MarkedClaimed(@) ELSE @]
    /\ task' = [task EXCEPT ![t] = Return(t, task[t].ret)]
    /\ UNCHANGED <<now, users, rows, balance, valid_from, expires_at,
                   videos_made, freeTotal, freeDone, initial, voices_made, admin_steps, wallet, thread, last_seen, broadcast>>
    /\ Commit
    /\ SnapUpd(t, snap[t])

\* stats_inc_video: UPDATE stats SET videos_made = videos_made + 1.
StatsIncVideo(t) ==
    LET u == task[t].u IN
    /\ task[t].fn = "stats_inc_video" /\ task[t].pc = "locked"
    /\ LockFree(t)
    /\ videos_made' = [videos_made EXCEPT ![u] = IF u \in rows THEN @ + 1 ELSE @]
    /\ task' = [task EXCEPT ![t] = Return(t, task[t].ret)]
    /\ UNCHANGED <<now, users, rows, balance, valid_from, expires_at, claimed,
                   freeTotal, freeDone, initial, voices_made, admin_steps, wallet, thread, last_seen, broadcast>>
    /\ Commit
    /\ SnapUpd(t, snap[t])

\* upsert_user: INSERT OR REPLACE INTO users under db_lock, then
\* "await ensure_user(u.id)".  The first step of every user-facing handler.
UpsertUser(t) ==
    /\ task[t].hpc = "upsert_user" /\ task[t].pc = "-"
    /\ LockFree(t)
    /\ users' = users \cup {task[t].u}
    /\ task' = [task EXCEPT ![t] =
          Call(t, "upserted", "ensure_user", task[t].u, 0)]
    /\ UNCHANGED <<now, rows, balance, valid_from, expires_at, claimed,
                   videos_made, freeTotal, freeDone, initial, voices_made, admin_steps, wallet, thread, last_seen, broadcast>>
    /\ Commit
    /\ SnapUpd(t, snap[t])

\* ------------------------------------- ledger calls made by admin_cb etc.
\* admin_cb "add" / "rem" / "valid" / "valid_remove", show_user_detail and the
\* conversion handlers call the ledger functions; a task with h = "call" runs
\* one such call on its own.
LedgerFunctions ==
    {"db_get_credit", "db_add_credits", "db_remove_credits", "db_set_validity",
     "db_remove_validity", "db_deduct_video_credit"}

ArgsOf(f) ==
    IF f \in {"db_add_credits", "db_remove_credits"} THEN Amounts
    ELSE IF f = "db_set_validity" THEN DaysInput
    ELSE {0}

\* An admin grants credits only up to MaxBalance (the model's bound).
StartCallOf(t, F) ==
    /\ task[t].h = "idle"
    /\ \E f \in F, u \in UserIds : \E a \in ArgsOf(f) :
          /\ f = "db_add_credits" => balance[u] + a <= MaxBalance
          /\ task' = [task EXCEPT ![t] =
                [Call(t, "call", f, u, a) EXCEPT !.h = "call"]]
    /\ UNCHANGED <<now, users, rows, balance, valid_from, expires_at, claimed,
                   videos_made, freeTotal, freeDone, initial, voices_made, admin_steps, wallet, thread, uncommitted, last_seen, broadcast>>
    /\ SnapUpd(t, NULL)

StartCall(t) == StartCallOf(t, LedgerFunctions)

\* the ledger functions admin_cb reaches by "add", "rem" and "valid"
AdminFunctions == {"db_add_credits", "db_remove_credits", "db_set_validity"}

\* admin_cb "add", "rem" and "valid" beside a conversion
StartAdmin(t) == StartCallOf(t, AdminFunctions)

EndCall(t) ==
    /\ At(t, "call", "call")
    /\ task' = [task EXCEPT ![t] = Idle]
    /\ UNCHANGED <<now, users, rows, balance, valid_from, expires_at, claimed,
                   videos_made, freeTotal, freeDone, initial, voices_made, admin_steps, wallet, thread, uncommitted, last_seen, broadcast>>
    /\ SnapUpd(t, NULL)

\* A handler that has ended leaves its task slot.
Finish(t) ==
    /\ task[t].hpc = "done"
    /\ task' = [task EXCEPT ![t] = Idle]
    /\ UNCHANGED <<now, users, rows, balance, valid_from, expires_at, claimed,
                   videos_made, freeTotal, freeDone, initial, voices_made, admin_steps, wallet, thread, uncommitted, last_seen, broadcast>>
    /\ SnapUpd(t, NULL)

\* ------------------------------------------------------------ handle_video
\* A video update arrives: handle_video starts with upsert_user(update).
VideoStart(t) ==
    /\ task[t].h = "idle"
    /\ \E u \in UserIds :
          /\ videos_made[u] < MaxVideos
          /\ task' = [task EXCEPT ![t] =
                [Idle EXCEPT !.h = "handle_video", !.hpc = "upsert_user", !.u = u]]
    /\ UNCHANGED <<now, users, rows, balance, valid_from, expires_at, claimed,
                   videos_made, freeTotal, freeDone, initial, voices_made, admin_steps, wallet, thread, uncommitted, last_seen, broadcast>>
    /\ SnapUpd(t, NULL)

\* ok = await db_deduct_video_credit(user_id)
VideoReserve(t) ==
    /\ At(t, "handle_video", "upserted")
    /\ task' = [task EXCEPT ![t] =
          Call(t, "reserve", "db_deduct_video_credit", task[t].u, 0)]
    /\ UNCHANGED <<now, users, rows, balance, valid_from, expires_at, claimed,
                   videos_made, freeTotal, freeDone, initial, voices_made, admin_steps, wallet, thread, uncommitted, last_seen, broadcast>>
    /\ SnapUpd(t, snap[t])

\* "if not ok": db_get_credit for the reply; else the file_id test (file: the
\* update carries a video), whose failure refunds; else send_chat_action is
\* awaited next.
VideoReserved(t) ==
    /\ At(t, "handle_video", "reserve")
    /\ \E file \in BOOLEAN :
          task' = [task EXCEPT ![t] =
              IF ~task[t].ret
              THEN Call(t, "low_credit", "db_get_credit", task[t].u, 0)
              ELSE IF ~file
              THEN [Call(t, "no_file", "db_add_credits", task[t].u, RefundAmount)
                       EXCEPT !.res = TRUE]
              ELSE [task[t] EXCEPT !.hpc = "chat_action", !.res = TRUE,
                                   !.file = TRUE]]
    /\ UNCHANGED <<now, users, rows, balance, valid_from, expires_at, claimed,
                   videos_made, freeTotal, freeDone, initial, voices_made, admin_steps, wallet, thread, uncommitted, last_seen, broadcast>>
    /\ SnapUpd(t, snap[t])

\* The "Credits low!" reply, then return.
VideoLowCredit(t) ==
    /\ At(t, "handle_video", "low_credit")
    /\ task' = [task EXCEPT ![t] = [task[t] EXCEPT !.hpc = "done", !.out = "low"]]
    /\ UNCHANGED <<now, users, rows, balance, valid_from, expires_at, claimed,
                   videos_made, freeTotal, freeDone, initial, voices_made, admin_steps, wallet, thread, uncommitted, last_seen, broadcast>>
    /\ SnapUpd(t, snap[t])

\* The refund of the missing file has been credited; reply and return.
VideoNoFile(t) ==
    /\ At(t, "handle_video", "no_file")
    /\ task' = [task EXCEPT ![t] =
          [task[t] EXCEPT !.hpc = "done", !.out = "no_file", !.ref = @ + 1]]
    /\ UNCHANGED <<now, users, rows, balance, valid_from, expires_at, claimed,
                   videos_made, freeTotal, freeDone, initial, voices_made, admin_steps, wallet, thread, uncommitted, last_seen, broadcast>>
    /\ SnapUpd(t, snap[t])

\* await context.bot.send_chat_action(...), then tempfile.TemporaryDirectory():
\* both outside the try block, so an error here leaves the handler at once.
VideoChatAction(t) ==
    /\ At(t, "handle_video", "chat_action")
    /\ \E o \in Outcomes :
          task' = [task EXCEPT ![t] =
              IF o = "ok" THEN [task[t] EXCEPT !.hpc = "download"]
              ELSE [task[t] EXCEPT !.hpc = "done", !.out = "raised"]]
    /\ UNCHANGED <<now, users, rows, balance, valid_from, expires_at, claimed,
                   videos_made, freeTotal, freeDone, initial, voices_made, admin_steps, wallet, thread, uncommitted, last_seen, broadcast>>
    /\ SnapUpd(t, snap[t])

\* An except block that counts the usage instead of refunding.
RaisedCounts(t, o) == Call(t, "count", "stats_inc_video", task[t].u, 0)

\* Inside "try": an Exception goes to the except block, which refunds;
\* asyncio.CancelledError is a BaseException and passes "except Exception".
Raised(t, o) ==
    IF o = "error"
    THEN Call(t, "refund", "db_add_credits", task[t].u, RefundAmount)
    ELSE [task[t] EXCEPT !.hpc = "done", !.out = "cancelled"]

\* get_file and download_to_drive
VideoDownload(t) ==
    /\ At(t, "handle_video", "download")
    /\ \E o \in Outcomes :
          task' = [task EXCEPT ![t] =
              IF o = "ok" THEN [task[t] EXCEPT !.hpc = "transcode"]
              ELSE Raised(t, o)]
    /\ UNCHANGED <<now, users, rows, balance, valid_from, expires_at, claimed,
                   videos_made, freeTotal, freeDone, initial, voices_made, admin_steps, wallet, thread, uncommitted, last_seen, broadcast>>
    /\ SnapUpd(t, snap[t])

\* run_cmd(build_ffmpeg_video_cmd(inp, outp)): the external transcoder
VideoTranscode(t) ==
    /\ At(t, "handle_video", "transcode")
    /\ \E o \in Outcomes :
          task' = [task EXCEPT ![t] =
              IF o = "ok" THEN [task[t] EXCEPT !.hpc = "deliver", !.ran = TRUE]
              ELSE [Raised(t, o) EXCEPT !.ran = TRUE]]
    /\ UNCHANGED <<now, users, rows, balance, valid_from, expires_at, claimed,
                   videos_made, freeTotal, freeDone, initial, voices_made, admin_steps, wallet, thread, uncommitted, last_seen, broadcast>>
    /\ SnapUpd(t, snap[t])

\* msg.reply_video_note(...), then "await stats_inc_video(user_id)"
VideoDeliver(t) ==
    /\ At(t, "handle_video", "deliver")
    /\ \E o \in Outcomes :
          task' = [task EXCEPT ![t] =
              IF o = "ok" THEN Call(t, "count", "stats_inc_video", task[t].u, 0)
              ELSE Raised(t, o)]
    /\ UNCHANGED <<now, users, rows, balance, valid_from, expires_at, claimed,
                   videos_made, freeTotal, freeDone, initial, voices_made, admin_steps, wallet, thread, uncommitted, last_seen, broadcast>>
    /\ SnapUpd(t, snap[t])

\* stats_inc_video returned: the handler ends.
VideoCounted(t) ==
    /\ At(t, "handle_video", "count")
    /\ task' = [task EXCEPT ![t] =
          [task[t] EXCEPT !.hpc = "done", !.out = "sent", !.inc = TRUE]]
    /\ UNCHANGED <<now, users, rows, balance, valid_from, expires_at, claimed,
                   videos_made, freeTotal, freeDone, initial, voices_made, admin_steps, wallet, thread, uncommitted, last_seen, broadcast>>
    /\ SnapUpd(t, snap[t])

\* The except block's refund has been credited; reply and return.
VideoRefunded(t) ==
    /\ At(t, "handle_video", "refund")
    /\ task' = [task EXCEPT ![t] =
          [task[t] EXCEPT !.hpc = "done", !.out = "failed", !.ref = @ + 1]]
    /\ UNCHANGED <<now, users, rows, balance, valid_from, expires_at, claimed,
                   videos_made, freeTotal, freeDone, initial, voices_made, admin_steps, wallet, thread, uncommitted, last_seen, broadcast>>
    /\ SnapUpd(t, snap[t])

\* ------------------------------------------------------------ handle_voice
\* stats_inc_voice: UPDATE stats SET voices_made = voices_made + 1.
StatsIncVoice(t) ==
    LET u == task[t].u IN
    /\ task[t].fn = "stats_inc_voice" /\ task[t].pc = "locked"
    /\ LockFree(t)
    /\ voices_made' = [voices_made EXCEPT ![u] = IF u \in rows THEN @ + 1 ELSE @]
    /\ task' = [task EXCEPT ![t] = Return(t, task[t].ret)]
    /\ UNCHANGED <<now, users, rows, balance, valid_from, expires_at, claimed,
                   videos_made, freeTotal, freeDone, initial, admin_steps,
                   wallet, thread, last_seen, broadcast>>
    /\ Commit
    /\ SnapUpd(t, snap[t])

\* A voice or audio update arrives: handle_voice starts with upsert_user.
VoiceStart(t) ==
    /\ task[t].h = "idle"
    /\ \E u \in UserIds :
          /\ voices_made[u] < MaxVoices
          /\ task' = [task EXCEPT ![t] =
                [Idle EXCEPT !.h = "handle_voice", !.hpc = "upsert_user", !.u = u]]
    /\ UNCHANGED <<now, users, rows, balance, valid_from, expires_at, claimed,
                   videos_made, freeTotal, freeDone, initial, voices_made, admin_steps, wallet, thread, uncommitted, last_seen, broadcast>>
    /\ SnapUpd(t, NULL)

\* The file_id test: without a file the "send voice" reply and return; else
\* send_chat_action is awaited next.  No ledger function is called.
VoiceReceived(t) ==
    /\ At(t, "handle_voice", "upserted")
    /\ \E file \in BOOLEAN :
          task' = [task EXCEPT ![t] =
              IF ~file THEN [task[t] EXCEPT !.hpc = "done", !.out = "no_file"]
              ELSE [task[t] EXCEPT !.hpc = "chat_action", !.file = TRUE]]
    /\ UNCHANGED <<now, users, rows, balance, valid_from, expires_at, claimed,
                   videos_made, freeTotal, freeDone, initial, voices_made, admin_steps, wallet, thread, uncommitted, last_seen, broadcast>>
    /\ SnapUpd(t, snap[t])

\* await context.bot.send_chat_action(...), outside the try block
VoiceChatAction(t) ==
    /\ At(t, "handle_voice", "chat_action")
    /\ \E o \in Outcomes :
          task' = [task EXCEPT ![t] =
              IF o = "ok" THEN [task[t] EXCEPT !.hpc = "download"]
              ELSE [task[t] EXCEPT !.hpc = "done", !.out = "raised"]]
    /\ UNCHANGED <<now, users, rows, balance, valid_from, expires_at, claimed,
                   videos_made, freeTotal, freeDone, initial, voices_made, admin_steps, wallet, thread, uncommitted, last_seen, broadcast>>
    /\ SnapUpd(t, snap[t])

\* An except block that refunds a credit as handle_video's does.
VoiceRaisedRefunds(t, o) ==
    Call(t, "refund", "db_add_credits", task[t].u, RefundAmount)

\* Inside "try": the except block only replies with the error.
VoiceRaised(t, o) ==
    [task[t] EXCEPT !.hpc = "done",
                    !.out = IF o = "error" THEN "failed" ELSE "cancelled"]

\* get_file and download_to_drive
VoiceDownload(t) ==
    /\ At(t, "handle_voice", "download")
    /\ \E o \in Outcomes :
          task' = [task EXCEPT ![t] =
              IF o = "ok" THEN [task[t] EXCEPT !.hpc = "transcode"]
              ELSE VoiceRaised(t, o)]
    /\ UNCHANGED <<now, users, rows, balance, valid_from, expires_at, claimed,
                   videos_made, freeTotal, freeDone, initial, voices_made, admin_steps, wallet, thread, uncommitted, last_seen, broadcast>>
    /\ SnapUpd(t, snap[t])

\* run_cmd(build_ffmpeg_voice_cmd(inp, outp)): the external transcoder
VoiceTranscode(t) ==
    /\ At(t, "handle_voice", "transcode")
    /\ \E o \in Outcomes :
          task' = [task EXCEPT ![t] =
              IF o = "ok" THEN [task[t] EXCEPT !.hpc = "deliver", !.ran = TRUE]
              ELSE [VoiceRaised(t, o) EXCEPT !.ran = TRUE]]
    /\ UNCHANGED <<now, users, rows, balance, valid_from, expires_at, claimed,
                   videos_made, freeTotal, freeDone, initial, voices_made, admin_steps, wallet, thread, uncommitted, last_seen, broadcast>>
    /\ SnapUpd(t, snap[t])

\* msg.reply_voice(...), then "await stats_inc_voice(user_id)"
VoiceDeliver(t) ==
    /\ At(t, "handle_voice", "deliver")
    /\ \E o \in Outcomes :
          task' = [task EXCEPT ![t] =
              IF o = "ok" THEN Call(t, "count", "stats_inc_voice", task[t].u, 0)
              ELSE VoiceRaised(t, o)]
    /\ UNCHANGED <<now, users, rows, balance, valid_from, expires_at, claimed,
                   videos_made, freeTotal, freeDone, initial, voices_made, admin_steps, wallet, thread, uncommitted, last_seen, broadcast>>
    /\ SnapUpd(t, snap[t])

\* stats_inc_voice returned: the handler ends.
VoiceCounted(t) ==
    /\ At(t, "handle_voice", "count")
    /\ task' = [task EXCEPT ![t] =
          [task[t] EXCEPT !.hpc = "done", !.out = "sent", !.inc = TRUE]]
    /\ UNCHANGED <<now, users, rows, balance, valid_from, expires_at, claimed,
                   videos_made, freeTotal, freeDone, initial, voices_made, admin_steps, wallet, thread, uncommitted, last_seen, broadcast>>
    /\ SnapUpd(t, snap[t])

\* the ledger function admin_cb reaches by "add"
GrantFunctions == {"db_add_credits"}

\* An admin grants credits (admin_cb "add") beside the conversions.
StartGrant(t) == StartCallOf(t, GrantFunctions)

\* ------------------------------- both conversion handlers and admin grants
NextMedia ==
    \E t \in Tasks :
        \/ StartGrant(t)
        \/ EndCall(t)
        \/ VideoStart(t)
        \/ VoiceStart(t)
        \/ UpsertUser(t)
        \/ EnsureUser(t)
        \/ CleanupIfExpired(t)
        \/ DbGetCredit(t)
        \/ DbAddCredits(t)
        \/ DbDeductVideoCredit(t)
        \/ StatsIncVideo(t)
        \/ StatsIncVoice(t)
        \/ VideoReserve(t)
        \/ VideoReserved(t)
        \/ VideoLowCredit(t)
        \/ VideoNoFile(t)
        \/ VideoChatAction(t)
        \/ VideoDownload(t)
        \/ VideoTranscode(t)
        \/ VideoDeliver(t)
        \/ VideoCounted(t)
        \/ VideoRefunded(t)
        \/ VoiceReceived(t)
        \/ VoiceChatAction(t)
        \/ VoiceDownload(t)
        \/ VoiceTranscode(t)
        \/ VoiceDeliver(t)
        \/ VoiceCounted(t)
        \/ Finish(t)

SpecMedia == Init /\ [][NextMedia]_vars

\* ------------------------------------------------------- admin handlers
\* The handler of task t ends with reply o ("-": nothing was sent).
Ended(t, o) == [task[t] EXCEPT !.hpc = "done", !.out = o]

\* main builds the Application without concurrent_updates: an update is
\* handled when the handling of the previous one has ended.
NoneRunning == \A x \in Tasks : task[x].h = "idle"

\* /admin arrives from caller c: admin_cmd starts with upsert_user(update).
AdminCmdStart(t) ==
    /\ NoneRunning
    /\ \E c \in Callers :
          task' = [task EXCEPT ![t] =
              [Idle EXCEPT !.h = "admin_cmd", !.hpc = "upsert_user", !.u = c,
                           !.who = c]]
    /\ UNCHANGED admin_steps
    /\ UNCHANGED <<now, users, rows, balance, valid_from, expires_at, claimed,
                   videos_made, freeTotal, freeDone, initial, voices_made,
                   wallet, thread, uncommitted, last_seen, broadcast>>
    /\ SnapUpd(t, NULL)

\* The "Admin Panel" menu button arrives: menu_click starts with upsert_user.
MenuClickStart(t) ==
    /\ NoneRunning
    /\ \E c \in Callers :
          task' = [task EXCEPT ![t] =
              [Idle EXCEPT !.h = "menu_click", !.hpc = "upsert_user", !.u = c,
                           !.who = c]]
    /\ UNCHANGED admin_steps
    /\ UNCHANGED <<now, users, rows, balance, valid_from, expires_at, claimed,
                   videos_made, freeTotal, freeDone, initial, voices_made,
                   wallet, thread, uncommitted, last_seen, broadcast>>
    /\ SnapUpd(t, NULL)

\* admin_cmd and menu_click's BTN_ADMIN_PANEL branch: "Admin only." for a
\* caller outside ADMIN_IDS, the panel otherwise.
AdminPanelReply(t) ==
    /\ \/ At(t, "admin_cmd", "upserted")
       \/ At(t, "menu_click", "upserted")
    /\ task' = [task EXCEPT ![t] =
          IF ~is_admin(task[t].who) THEN Ended(t, "admin_only")
          ELSE Ended(t, "panel")]
    /\ UNCHANGED admin_steps
    /\ UNCHANGED <<now, users, rows, balance, valid_from, expires_at, claimed,
                   videos_made, freeTotal, freeDone, initial, voices_made,
                   wallet, thread, uncommitted, last_seen, broadcast>>
    /\ SnapUpd(t, snap[t])

\* A callback query "admin:<act>:<tgt>:<amount>" arrives from caller c.  The
\* amounts are those of the keyboard; credits are granted up to MaxBalance.
AdminCbStart(t) ==
    /\ NoneRunning
    /\ \E c \in Callers, act \in AdminActions, tgt \in UserIds :
       \E a \in (IF act \in {"add", "rem"} THEN Amounts
                 ELSE IF act = "valid" THEN DaysButtons ELSE {0}) :
          /\ act = "add" => balance[tgt] + a <= MaxBalance
          /\ task' = [task EXCEPT ![t] =
                [Idle EXCEPT !.h = "admin_cb", !.hpc = "answer", !.who = c,
                             !.act = act, !.tgt = tgt, !.amt = a]]
    /\ UNCHANGED admin_steps
    /\ UNCHANGED <<now, users, rows, balance, valid_from, expires_at, claimed,
                   videos_made, freeTotal, freeDone, initial, voices_made,
                   wallet, thread, uncommitted, last_seen, broadcast>>
    /\ SnapUpd(t, NULL)

\* admin_cb after "await q.answer()": return when the caller is no admin,
\* else dispatch on the action.
AdminCb(t) ==
    LET r == task[t] IN
    /\ At(t, "admin_cb", "answer")
    /\ IF ~is_admin(r.who)
       THEN /\ task' = [task EXCEPT ![t] = Ended(t, "-")]
            /\ UNCHANGED admin_steps
       ELSE IF r.act \in {"custom_credit", "custom_valid", "broadcast"}
       THEN /\ admin_steps' = [admin_steps EXCEPT ![r.who] =
                  [type |-> r.act,
                   target |-> IF r.act = "broadcast" THEN 0 ELSE r.tgt]]
            /\ task' = [task EXCEPT ![t] = Ended(t, "prompt")]
       ELSE /\ UNCHANGED admin_steps
            /\ task' = [task EXCEPT ![t] =
                  CASE r.act = "menu" -> Ended(t, "panel")
                    [] r.act = "user" ->
                         Call(t, "detail", "db_get_credit", r.tgt, 0)
                    [] r.act = "add" ->
                         Call(t, "adjust", "db_add_credits", r.tgt, r.amt)
                    [] r.act = "rem" ->
                         Call(t, "adjust", "db_remove_credits", r.tgt, r.amt)
                    [] r.act = "valid" ->
                         Call(t, "adjust", "db_set_validity", r.tgt, r.amt)
                    [] r.act = "valid_remove" ->
                         Call(t, "adjust", "db_remove_validity", r.tgt, 0)]
    /\ UNCHANGED <<now, users, rows, balance, valid_from, expires_at, claimed,
                   videos_made, freeTotal, freeDone, initial, voices_made,
                   wallet, thread, uncommitted, last_seen, broadcast>>
    /\ SnapUpd(t, snap[t])

\* show_user_detail after an adjustment: credits, vfrom, exp = await
\* db_get_credit(user_id)
show_user_detail(t) ==
    /\ \/ At(t, "admin_cb", "adjust")
       \/ At(t, "admin_step_handler", "adjust")
    /\ task' = [task EXCEPT ![t] =
          Call(t, "detail", "db_get_credit", task[t].u, 0)]
    /\ UNCHANGED admin_steps
    /\ UNCHANGED <<now, users, rows, balance, valid_from, expires_at, claimed,
                   videos_made, freeTotal, freeDone, initial, voices_made,
                   wallet, thread, uncommitted, last_seen, broadcast>>
    /\ SnapUpd(t, snap[t])

\* show_user_detail: stats_get and the detail message; the handler returns.
UserDetailSent(t) ==
    /\ \/ At(t, "admin_cb", "detail")
       \/ At(t, "admin_step_handler", "detail")
    /\ task' = [task EXCEPT ![t] = Ended(t, "detail")]
    /\ UNCHANGED admin_steps
    /\ UNCHANGED <<now, users, rows, balance, valid_from, expires_at, claimed,
                   videos_made, freeTotal, freeDone, initial, voices_made,
                   wallet, thread, uncommitted, last_seen, broadcast>>
    /\ SnapUpd(t, snap[t])

\* A text message arrives from caller c while the wizard may be waiting.
\* Credits are granted up to MaxBalance.
AdminStepStart(t) ==
    /\ NoneRunning
    /\ \E c \in Callers, text \in Texts :
          LET step == admin_steps[c] IN
          /\ (step.type = "custom_credit" /\ ~StartsWithMinus(text)
                 /\ parse_int(text) # NULL)
             => balance[step.target] + parse_int(text) <= MaxBalance
          /\ task' = [task EXCEPT ![t] =
                [Idle EXCEPT !.h = "admin_step_handler", !.hpc = "begin",
                             !.who = c, !.text = text]]
    /\ UNCHANGED admin_steps
    /\ UNCHANGED <<now, users, rows, balance, valid_from, expires_at, claimed,
                   videos_made, freeTotal, freeDone, initial, voices_made,
                   wallet, thread, uncommitted, last_seen, broadcast>>
    /\ SnapUpd(t, NULL)

\* admin_step_handler: return without a pending step; drop the step of a
\* caller who is no admin; else pop the step and run it.  A ValueError of
\* parse_int goes to the except block, which replies with the error.
admin_step_handler(t) ==
    LET r == task[t]
        step == admin_steps[r.who]
        n == parse_int(r.text)
    IN
    /\ At(t, "admin_step_handler", "begin")
    /\ IF step.type = "-"
       THEN /\ task' = [task EXCEPT ![t] = Ended(t, "-")]
            /\ UNCHANGED admin_steps
       ELSE /\ admin_steps' = Popped(admin_steps, r.who)
            /\ task' = [task EXCEPT ![t] =
                  IF ~is_admin(r.who) THEN Ended(t, "-")
                  ELSE IF step.type = "broadcast" THEN Ended(t, "broadcast")
                  ELSE IF n = NULL THEN Ended(t, "error")
                  ELSE IF step.type = "custom_valid"
                  THEN Call(t, "adjust", "db_set_validity", step.target, n)
                  ELSE IF StartsWithMinus(r.text)
                  THEN Call(t, "adjust", "db_remove_credits", step.target, n)
                  ELSE Call(t, "adjust", "db_add_credits", step.target, n)]
    /\ UNCHANGED <<now, users, rows, balance, valid_from, expires_at, claimed,
                   videos_made, freeTotal, freeDone, initial, voices_made,
                   wallet, thread, uncommitted, last_seen, broadcast>>
    /\ SnapUpd(t, snap[t])

NextAdmin ==
    \E t \in Tasks :
        \/ AdminCmdStart(t)
        \/ MenuClickStart(t)
        \/ AdminCbStart(t)
        \/ AdminStepStart(t)
        \/ UpsertUser(t)
        \/ EnsureUser(t)
        \/ CleanupIfExpired(t)
        \/ DbGetCredit(t)
        \/ DbAddCredits(t)
        \/ DbRemoveCredits(t)
        \/ DbSetValidity(t)
        \/ DbRemoveValidity(t)
        \/ AdminPanelReply(t)
        \/ AdminCb(t)
        \/ show_user_detail(t)
        \/ UserDetailSent(t)
        \/ admin_step_handler(t)
        \/ Finish(t)

SpecAdmin == Init /\ [][NextAdmin]_vars

\* ---------------------------------------------------------------- free_cmd
\* /free arrives: free_cmd starts with upsert_user(update).
FreeStart(t) ==
    /\ task[t].h = "idle"
    /\ \E u \in UserIds :
          task' = [task EXCEPT ![t] =
              [Idle EXCEPT !.h = "free_cmd", !.hpc = "upsert_user", !.u = u,
                           !.late = u \in freeDone]]
    /\ UNCHANGED <<now, users, rows, balance, valid_from, expires_at, claimed,
                   videos_made, freeTotal, freeDone, initial, voices_made, admin_steps, wallet, thread, uncommitted, last_seen, broadcast>>
    /\ SnapUpd(t, NULL)

\* if await freebies_is_claimed(uid)
FreeCheck(t) ==
    /\ At(t, "free_cmd", "upserted")
    /\ task' = [task EXCEPT ![t] =
          Call(t, "check", "freebies_is_claimed", task[t].u, 0)]
    /\ UNCHANGED <<now, users, rows, balance, valid_from, expires_at, claimed,
                   videos_made, freeTotal, freeDone, initial, voices_made, admin_steps, wallet, thread, uncommitted, last_seen, broadcast>>
    /\ SnapUpd(t, snap[t])

\* Claimed: the "already claimed" reply and return; else ask the oracle.
FreeChecked(t) ==
    /\ At(t, "free_cmd", "check")
    /\ task' = [task EXCEPT ![t] =
          IF task[t].ret
          THEN [task[t] EXCEPT !.hpc = "done", !.out = "already"]
          ELSE [task[t] EXCEPT !.hpc = "oracle"]]
    /\ UNCHANGED <<now, users, rows, balance, valid_from, expires_at, claimed,
                   videos_made, freeTotal, freeDone, initial, voices_made, admin_steps, wallet, thread, uncommitted, last_seen, broadcast>>
    /\ SnapUpd(t, snap[t])

\* if not await is_user_subscribed(context, uid): reply and return;
\* else await db_add_credits(uid, FREE_CREDITS)
FreeOracle(t) ==
    /\ At(t, "free_cmd", "oracle")
    /\ \E a \in OracleAnswers :
          task' = [task EXCEPT ![t] =
              IF IsUserSubscribed(a)
              THEN [Call(t, "grant", "db_add_credits", task[t].u, FREE_CREDITS)
                       EXCEPT !.ans = a]
              ELSE [task[t] EXCEPT !.hpc = "done", !.out = "join", !.ans = a]]
    /\ UNCHANGED <<now, users, rows, balance, valid_from, expires_at, claimed,
                   videos_made, freeTotal, freeDone, initial, voices_made, admin_steps, wallet, thread, uncommitted, last_seen, broadcast>>
    /\ SnapUpd(t, snap[t])

\* db_add_credits returned; await freebies_mark_claimed(uid)
FreeGranted(t) ==
    /\ At(t, "free_cmd", "grant")
    /\ task' = [task EXCEPT ![t] =
          Call(t, "mark", "freebies_mark_claimed", task[t].u, 0)]
    /\ freeTotal' = [freeTotal EXCEPT ![task[t].u] = @ + FREE_CREDITS]
    /\ UNCHANGED <<now, users, rows, balance, valid_from, expires_at, claimed,
                   videos_made, freeDone, initial, voices_made, admin_steps, wallet, thread, uncommitted, last_seen, broadcast>>
    /\ SnapUpd(t, snap[t])

\* freebies_mark_claimed returned; the "Added" reply and return.
FreeMarked(t) ==
    /\ At(t, "free_cmd", "mark")
    /\ task' = [task EXCEPT ![t] = [task[t] EXCEPT !.hpc = "done", !.out = "granted"]]
    /\ freeDone' = freeDone \cup {task[t].u}
    /\ UNCHANGED <<now, users, rows, balance, valid_from, expires_at, claimed,
                   videos_made, freeTotal, initial, voices_made, admin_steps, wallet, thread, uncommitted, last_seen, broadcast>>
    /\ SnapUpd(t, snap[t])

\* ------------------------------------------ db.py: the synchronous ledger
\* class DB: every method opens its own sqlite connection, and no lock is
\* shared between threads.  A statement is atomic; a method is a sequence of
\* statements, and other threads and the wall clock may move between them.
botvars ==
    <<users, rows, balance, valid_from, expires_at, claimed, videos_made, task,
      snap, freeTotal, freeDone, initial, voices_made, admin_steps, uncommitted, last_seen, broadcast>>

DBMethods == {"get_credit", "add_credits", "deduct_for_video", "set_validity"}

DBArgsOf(f) ==
    IF f = "add_credits" THEN Amounts
    ELSE IF f = "set_validity" THEN DaysInput
    ELSE IF f = "deduct_for_video" THEN {CREDITS_PER_VIDEO}
    ELSE {0}

\* validity_expire is set and has passed
WalletExpired(u) ==
    wallet[u].validity_expire # NULL /\ now >= wallet[u].validity_expire

\* A thread calls DB.f(u, a).  Credits are granted up to MaxBalance only.
DBCall(th) ==
    /\ thread[th].fn = "-"
    /\ \E f \in DBMethods, u \in UserIds : \E a \in DBArgsOf(f) :
          /\ f = "add_credits" => wallet[u].credits + a <= MaxBalance
          /\ thread' = [thread EXCEPT ![th] =
                [IdleThread EXCEPT !.fn = f, !.pc = "ensure_user", !.u = u,
                                   !.amt = a, !.exp0 = WalletExpired(u)]]
    /\ UNCHANGED <<now, botvars, wallet>>

\* DB.ensure_user: INSERT OR IGNORE INTO wallet(user_id), commit.
\* DB.set_validity reads "now = int(time.time())" right after it.
DB_ensure_user(th) ==
    LET u == thread[th].u IN
    /\ thread[th].pc = "ensure_user"
    /\ wallet' = [wallet EXCEPT ![u].present = TRUE]
    /\ thread' = [thread EXCEPT ![th].pc = "statement",
          ![th].tnow = IF thread[th].fn = "set_validity" THEN now ELSE NULL]
    /\ UNCHANGED <<now, botvars>>

\* DB.get_credit: SELECT credits, validity_start, validity_expire; no expiry
\* test is made.
DB_get_credit(th) ==
    LET w == wallet[thread[th].u] IN
    /\ thread[th].fn = "get_credit" /\ thread[th].pc = "statement"
    /\ thread' = [thread EXCEPT ![th].pc = "-",
          ![th].ret = IF w.present
                      THEN <<w.credits, w.validity_start, w.validity_expire>>
                      ELSE <<0, NULL, NULL>>]
    /\ UNCHANGED <<now, botvars, wallet>>

\* DB.add_credits: UPDATE wallet SET credits = credits + ?
DB_add_credits(th) ==
    LET u == thread[th].u IN
    /\ thread[th].fn = "add_credits" /\ thread[th].pc = "statement"
    /\ wallet' = [wallet EXCEPT ![u].credits = @ + thread[th].amt]
    /\ thread' = [thread EXCEPT ![th].pc = "-"]
    /\ UNCHANGED <<now, botvars>>

\* DB.deduct_for_video, first statement: SELECT credits; "if c < cost: return
\* False".
DB_deduct_for_video_select(th) ==
    LET c == wallet[thread[th].u].credits IN
    /\ thread[th].fn = "deduct_for_video" /\ thread[th].pc = "statement"
    /\ thread' = [thread EXCEPT ![th].c = c,
          ![th].pc = IF c < thread[th].amt THEN "-" ELSE "update",
          ![th].ret = FALSE]
    /\ UNCHANGED <<now, botvars, wallet>>

\* DB.deduct_for_video, second statement: UPDATE wallet SET credits =
\* credits - ?, commit, return True.
DB_deduct_for_video_update(th) ==
    LET u == thread[th].u IN
    /\ thread[th].fn = "deduct_for_video" /\ thread[th].pc = "update"
    /\ wallet' = [wallet EXCEPT ![u].credits = @ - thread[th].amt]
    /\ thread' = [thread EXCEPT ![th].pc = "-", ![th].ret = TRUE]
    /\ UNCHANGED <<now, botvars>>

\* DB.set_validity: exp = now + int(days) * 86400; UPDATE wallet SET
\* validity_start=now, validity_expire=exp.
DB_set_validity(th) ==
    LET u == thread[th].u
        exp == thread[th].tnow + thread[th].amt * DAY
    IN
    /\ thread[th].fn = "set_validity" /\ thread[th].pc = "statement"
    /\ wallet' = [wallet EXCEPT ![u].validity_start = thread[th].tnow,
                                ![u].validity_expire = exp]
    /\ thread' = [thread EXCEPT ![th].pc = "-"]
    /\ UNCHANGED <<now, botvars>>

\* The method has returned to its caller.
DBReturn(th) ==
    /\ thread[th].fn # "-" /\ thread[th].pc = "-"
    /\ thread' = [thread EXCEPT ![th] = IdleThread]
    /\ UNCHANGED <<now, botvars, wallet>>

NextSync ==
    \/ Tick
    \/ \E th \in Threads :
        \/ DBCall(th)
        \/ DB_ensure_user(th)
        \/ DB_get_credit(th)
        \/ DB_add_credits(th)
        \/ DB_deduct_for_video_select(th)
        \/ DB_deduct_for_video_update(th)
        \/ DB_set_validity(th)
        \/ DBReturn(th)

SpecSync == Init /\ [][NextSync]_vars

\* ------------------------------------------------ the ledger on its own
NextLedger ==
    \/ Tick
    \/ \E t \in Tasks :
        \/ StartCall(t)
        \/ EnsureUser(t)
        \/ CleanupIfExpired(t)
        \/ DbGetCredit(t)
        \/ DbAddCredits(t)
        \/ DbRemoveCredits(t)
        \/ DbSetValidity(t)
        \/ DbRemoveValidity(t)
        \/ DbDeductVideoCredit(t)
        \/ EndCall(t)

Spec == Init /\ [][NextLedger]_vars

\* The event loop resumes task t: its next lock section, or the return of its
\* ledger function to the caller.
Resume(t) ==
    \/ EnsureUser(t)
    \/ CleanupIfExpired(t)
    \/ DbGetCredit(t)
    \/ DbAddCredits(t)
    \/ DbRemoveCredits(t)
    \/ DbSetValidity(t)
    \/ DbRemoveValidity(t)
    \/ DbDeductVideoCredit(t)
    \/ EndCall(t)

\* The asyncio event loop runs every task that is ready, and db_lock wakes its
\* waiters in FIFO order: a task that can continuously take its next step
\* takes it.  New calls and the clock are under no obligation.
\* The clock stands still here: no ledger function waits for it.
NextFair == \E t \in Tasks : StartCall(t) \/ Resume(t)

SpecFair ==
    Init /\ [][NextFair]_vars /\ \A t \in Tasks : WF_vars(Resume(t))

\* ------------------------------------------ the ledger, one call at a time
\* Handlers dispatched one after the other: a call starts only when no other
\* is in flight.  The wall clock still moves between its lock sections.
StartSerial(t) ==
    /\ \A x \in Tasks : task[x].h = "idle"
    /\ StartCall(t)

NextSerial ==
    \/ Tick
    \/ \E t \in Tasks :
        \/ StartSerial(t)
        \/ EnsureUser(t)
        \/ CleanupIfExpired(t)
        \/ DbGetCredit(t)
        \/ DbAddCredits(t)
        \/ DbRemoveCredits(t)
        \/ DbSetValidity(t)
        \/ DbRemoveValidity(t)
        \/ DbDeductVideoCredit(t)
        \/ EndCall(t)

SpecSerial == Init /\ [][NextSerial]_vars

\* ------------------------------------- concurrent reservations, one account
\* The account holds k credits and no validity window; NReserve handlers have
\* each just called db_deduct_video_credit on it.
Reservers == 1..NReserve

InitReserve ==
    /\ now = 0
    /\ users = {1}
    /\ rows = {1}
    /\ \E k \in 0..(NReserve - 1) :
          /\ balance = [u \in UserIds |-> k]
          /\ initial = [u \in UserIds |-> k]
    /\ valid_from = [u \in UserIds |-> NULL]
    /\ expires_at = [u \in UserIds |-> NULL]
    /\ claimed = [u \in UserIds |-> 0]
    /\ videos_made = [u \in UserIds |-> 0]
    /\ task = [t \in Reservers |->
          [Idle EXCEPT !.h = "call", !.hpc = "call", !.u = 1,
                       !.fn = "db_deduct_video_credit", !.pc = "ensure_user"]]
    /\ snap = [t \in Reservers |-> NULL]
    /\ freeTotal = [u \in UserIds |-> 0]
    /\ freeDone = {}
    /\ voices_made = [u \in UserIds |-> 0]
    /\ admin_steps = [c \in Callers |-> NoStep]
    /\ wallet = [u \in UserIds |-> NoWallet]
    /\ thread = [th \in Threads |-> IdleThread]
    /\ uncommitted = [u \in UserIds |-> 0]
    /\ last_seen = <<>>
    /\ broadcast = NoBroadcast

NextReserve ==
    \E t \in Reservers :
        \/ EnsureUser(t)
        \/ CleanupIfExpired(t)
        \/ DbDeductVideoCredit(t)

SpecReserve == InitReserve /\ [][NextReserve]_vars

\* ----------------------------------------- handle_video beside admin calls
NextVideo ==
    \/ Tick
    \/ \E t \in Tasks :
        \/ StartAdmin(t)
        \/ EndCall(t)
        \/ VideoStart(t)
        \/ UpsertUser(t)
        \/ EnsureUser(t)
        \/ CleanupIfExpired(t)
        \/ DbGetCredit(t)
        \/ DbAddCredits(t)
        \/ DbRemoveCredits(t)
        \/ DbSetValidity(t)
        \/ DbDeductVideoCredit(t)
        \/ StatsIncVideo(t)
        \/ VideoReserve(t)
        \/ VideoReserved(t)
        \/ VideoLowCredit(t)
        \/ VideoNoFile(t)
        \/ VideoChatAction(t)
        \/ VideoDownload(t)
        \/ VideoTranscode(t)
        \/ VideoDeliver(t)
        \/ VideoCounted(t)
        \/ VideoRefunded(t)
        \/ Finish(t)

SpecVideo == Init /\ [][NextVideo]_vars

\* stats_inc_video when its UPDATE or its db.commit() raises: the count stays
\* in the open transaction when the commit found the database locked.  The
\* call is inside handle_video's try block and follows reply_video_note: the
\* video note has been sent (out), and the except block refunds.
StatsIncVideoRaises(t) ==
    LET u == task[t].u IN
    /\ task[t].fn = "stats_inc_video" /\ task[t].pc = "locked"
    /\ task[t].h = "handle_video"
    /\ LockFree(t)
    /\ \E o \in StorageFailures :
          videos_made' = [videos_made EXCEPT ![u] =
              IF o = "commit_busy" /\ u \in rows THEN @ + 1 ELSE @]
    /\ task' = [task EXCEPT ![t] =
          [Call(t, "refund", "db_add_credits", u, RefundAmount)
              EXCEPT !.out = "sent"]]
    /\ UNCHANGED <<now, users, rows, balance, valid_from, expires_at, claimed,
                   freeTotal, freeDone, initial, voices_made, admin_steps,
                   wallet, thread, uncommitted, last_seen, broadcast>>
    /\ SnapUpd(t, snap[t])

\* --------------------- handle_video with storage errors, and admin grants
NextStorage ==
    \E t \in Tasks :
        \/ StartGrant(t)
        \/ EndCall(t)
        \/ VideoStart(t)
        \/ UpsertUser(t)
        \/ EnsureUser(t)
        \/ CleanupIfExpired(t)
        \/ DbGetCredit(t)
        \/ DbAddCredits(t)
        \/ DbDeductVideoCredit(t)
        \/ DbDeductVideoCreditRaises(t)
        \/ StatsIncVideo(t)
        \/ StatsIncVideoRaises(t)
        \/ VideoReserve(t)
        \/ VideoReserved(t)
        \/ VideoLowCredit(t)
        \/ VideoNoFile(t)
        \/ VideoChatAction(t)
        \/ VideoDownload(t)
        \/ VideoTranscode(t)
        \/ VideoDeliver(t)
        \/ VideoCounted(t)
        \/ VideoRefunded(t)
        \/ Finish(t)

SpecStorage == Init /\ [][NextStorage]_vars

\* ------------------------------------------------------------ list_premium
\* The accounts of the premium list, the expiries their rows may hold, and the
\* LIMIT of the query (admin_cb calls list_premium(limit=50)).
PremiumIds == {1, 2, 3}
Expiries == {NULL} \cup {d * DAY : d \in 1..(MaxDays + 1)}
Limits == {1, 2, 50}

\* WHERE c.expires_at IS NOT NULL AND c.expires_at >= ?
ExpiresAtOrAfter(exp, t) == exp # NULL /\ exp >= t

\* WHERE c.expires_at IS NOT NULL AND c.expires_at > ?
ExpiresAfter(exp, t) == exp # NULL /\ exp > t

\* FROM users u JOIN credits c ON u.user_id=c.user_id WHERE ...
PremiumRows(t) ==
    {u \in users \cap rows : ExpiresAfter(expires_at[u], t)}

\* ORDER BY c.expires_at ASC: the orders sqlite may return the rows S in
\* (rows of equal expires_at in any order).
OrderByExpiresAsc(S) ==
    {s \in [1..Cardinality(S) -> S] :
        /\ \A i, j \in DOMAIN s : i # j => s[i] # s[j]
        /\ \A i, j \in DOMAIN s :
              i < j => expires_at[s[i]] <= expires_at[s[j]]}

\* LIMIT ?
Limit(s, n) == SubSeq(s, 1, IF Len(s) < n THEN Len(s) ELSE n)

\* The tables as the handlers leave them: a credits row belongs to an id that
\* has a users row (upsert_user inserts it first, and the targets of an admin
\* come from list_users), and only a credits row holds a window.
InitPremium ==
    /\ now = 0
    /\ users \in SUBSET PremiumIds
    /\ rows \in SUBSET users
    /\ expires_at \in [PremiumIds -> Expiries]
    /\ \A u \in PremiumIds \ rows : expires_at[u] = NULL
    /\ valid_from = [u \in PremiumIds |->
          IF expires_at[u] = NULL THEN NULL ELSE 0]
    /\ balance = [u \in PremiumIds |-> 0]
    /\ claimed = [u \in PremiumIds |-> 0]
    /\ videos_made = [u \in PremiumIds |-> 0]
    /\ task = [t \in Tasks |-> Idle]
    /\ snap = [t \in Tasks |-> NULL]
    /\ freeTotal = [u \in PremiumIds |-> 0]
    /\ freeDone = {}
    /\ initial = [u \in PremiumIds |-> 0]
    /\ voices_made = [u \in PremiumIds |-> 0]
    /\ admin_steps = [c \in Callers |-> NoStep]
    /\ wallet = [u \in UserIds |-> NoWallet]
    /\ thread = [th \in Threads |-> IdleThread]
    /\ uncommitted = [u \in UserIds |-> 0]
    /\ last_seen = <<>>
    /\ broadcast = NoBroadcast

\* list_premium(limit): t = now_ts() (kept in start), then the query under
\* db_lock; the ids of the returned rows are the task's return value.  admin_cb "premium"
\* replies with them.
list_premium(t) ==
    /\ NoneRunning
    /\ LockFree(t)
    /\ \E limit \in Limits : \E s \in OrderByExpiresAsc(PremiumRows(now)) :
          task' = [task EXCEPT ![t] =
              [Idle EXCEPT !.h = "admin_cb", !.act = "premium", !.who = 2,
                           !.fn = "list_premium", !.amt = limit,
                           !.start = now,
                           !.ret = Limit(s, limit), !.hpc = "done",
                           !.out = "premium"]]
    /\ UNCHANGED <<now, users, rows, balance, valid_from, expires_at, claimed,
                   videos_made, freeTotal, freeDone, initial, voices_made,
                   admin_steps, wallet, thread, uncommitted, last_seen, broadcast>>
    /\ SnapUpd(t, NULL)

NextPremium ==
    \/ Tick
    \/ \E t \in Tasks :
        \/ list_premium(t)
        \/ Finish(t)

SpecPremium == InitPremium /\ [][NextPremium]_vars

\* ------------------------------------------------- db.py: DB.list_premium
\* The rows a wallet may hold: none, or one with or without a window.
WalletRows ==
    {NoWallet} \cup
    {[present |-> TRUE, credits |-> 0,
      validity_start |-> IF e = NULL THEN NULL ELSE 0,
      validity_expire |-> e] : e \in Expiries}

\* FROM users u JOIN wallet w ON w.user_id=u.id WHERE w.validity_expire IS
\* NOT NULL AND w.validity_expire > ?  (upsert_user and ensure_user insert the
\* users row and the wallet row together)
DBPremiumRows(t) ==
    {u \in DOMAIN wallet :
        /\ wallet[u].present
        /\ wallet[u].validity_expire # NULL /\ wallet[u].validity_expire > t}

\* ORDER BY w.validity_expire DESC: the orders sqlite may return the rows S
\* in (rows of equal validity_expire in any order).
OrderByExpireDesc(S) ==
    {s \in [1..Cardinality(S) -> S] :
        /\ \A i, j \in DOMAIN s : i # j => s[i] # s[j]
        /\ \A i, j \in DOMAIN s :
              i < j => wallet[s[i]].validity_expire
                          >= wallet[s[j]].validity_expire}

InitSyncPremium ==
    /\ now = 0
    /\ users = {}
    /\ rows = {}
    /\ balance = [u \in UserIds |-> 0]
    /\ valid_from = [u \in UserIds |-> NULL]
    /\ expires_at = [u \in UserIds |-> NULL]
    /\ claimed = [u \in UserIds |-> 0]
    /\ videos_made = [u \in UserIds |-> 0]
    /\ task = [t \in Tasks |-> Idle]
    /\ snap = [t \in Tasks |-> NULL]
    /\ freeTotal = [u \in UserIds |-> 0]
    /\ freeDone = {}
    /\ initial = [u \in UserIds |-> 0]
    /\ voices_made = [u \in UserIds |-> 0]
    /\ admin_steps = [c \in Callers |-> NoStep]
    /\ wallet \in [PremiumIds -> WalletRows]
    /\ thread = [th \in Threads |-> IdleThread]
    /\ uncommitted = [u \in UserIds |-> 0]
    /\ last_seen = <<>>
    /\ broadcast = NoBroadcast

\* DB.list_premium(limit): now = int(time.time()) and the SELECT; the ids of
\* the returned rows are the method's return value.
DB_list_premium(th) ==
    /\ thread[th].fn = "-"
    /\ \E limit \in Limits : \E s \in OrderByExpireDesc(DBPremiumRows(now)) :
          thread' = [thread EXCEPT ![th] =
              [IdleThread EXCEPT !.fn = "list_premium", !.amt = limit,
                                 !.tnow = now, !.ret = Limit(s, limit)]]
    /\ UNCHANGED <<now, botvars, wallet>>

NextSyncPremium ==
    \/ Tick
    \/ \E th \in Threads :
        \/ DB_list_premium(th)
        \/ DBReturn(th)

SpecSyncPremium == InitSyncPremium /\ [][NextSyncPremium]_vars

\* ------------------------------------------------------------- free_cmd
NextFree ==
    \E t \in Tasks :
        \/ FreeStart(t)
        \/ UpsertUser(t)
        \/ EnsureUser(t)
        \/ FreebiesIsClaimed(t)
        \/ DbAddCredits(t)
        \/ FreebiesMarkClaimed(t)
        \/ FreeCheck(t)
        \/ FreeChecked(t)
        \/ FreeOracle(t)
        \/ FreeGranted(t)
        \/ FreeMarked(t)
        \/ Finish(t)

SpecFree == Init /\ [][NextFree]_vars

\* ------------------------------------- the broadcast beside other updates
\* admin_step_handler's "broadcast" branch pages through list_users while the
\* handlers of other updates run at its awaits.  NRegistered users are in the
\* table when admin 2 sends the text; user 1 was seen last, user NRegistered
\* first.
BroadcastLimit == 50

\* The users whose updates arrive meanwhile: the one seen last, the one seen
\* first, and one who is not registered yet.
Visitors == {1, NRegistered, NRegistered + 1}

Range(s) == {s[i] : i \in 1..Len(s)}

Min(a, b) == IF a <= b THEN a ELSE b

\* list_users: SELECT ... ORDER BY u.last_seen DESC LIMIT limit OFFSET offset
list_users(offset, limit) ==
    SubSeq(last_seen, offset + 1, Min(offset + limit, Len(last_seen)))

\* INSERT OR REPLACE INTO users (..., last_seen) VALUES (..., now_ts()): the
\* row of u now sorts first, whether u had a row or not.
SeenNow(u) == <<u>> \o SelectSeq(last_seen, LAMBDA x : x # u)

InitBroadcast ==
    /\ now = 0
    /\ users = 1..NRegistered
    /\ rows = {}
    /\ balance = [u \in UserIds |-> 0]
    /\ valid_from = [u \in UserIds |-> NULL]
    /\ expires_at = [u \in UserIds |-> NULL]
    /\ claimed = [u \in UserIds |-> 0]
    /\ videos_made = [u \in UserIds |-> 0]
    /\ task = [t \in Tasks |-> Idle]
    /\ snap = [t \in Tasks |-> NULL]
    /\ freeTotal = [u \in UserIds |-> 0]
    /\ freeDone = {}
    /\ initial = [u \in UserIds |-> 0]
    /\ voices_made = [u \in UserIds |-> 0]
    /\ admin_steps = [c \in Callers |->
          IF c = 2 THEN [type |-> "broadcast", target |-> 0] ELSE NoStep]
    /\ wallet = [u \in UserIds |-> NoWallet]
    /\ thread = [th \in Threads |-> IdleThread]
    /\ uncommitted = [u \in UserIds |-> 0]
    /\ last_seen = [i \in 1..NRegistered |-> i]
    /\ broadcast = NoBroadcast

\* admin_step_handler pops the step of admin 2 and enters the "broadcast"
\* branch: total = await count_users(), sent = failed = 0, offset = 0.
BroadcastStart ==
    /\ broadcast.pc = "idle"
    /\ admin_steps[2].type = "broadcast"
    /\ admin_steps' = Popped(admin_steps, 2)
    /\ broadcast' = [NoBroadcast EXCEPT !.pc = "list",
                                        !.total = Len(last_seen),
                                        !.registered = Range(last_seen)]
    /\ UNCHANGED <<now, users, rows, balance, valid_from, expires_at, claimed,
                   videos_made, task, snap, freeTotal, freeDone, initial,
                   voices_made, wallet, thread, uncommitted, last_seen>>

\* batch = await list_users(offset=offset, limit=50); an empty batch ends the
\* loop and the "Broadcast done" reply reports sent and failed.
BroadcastList ==
    LET batch == list_users(broadcast.offset, BroadcastLimit) IN
    /\ broadcast.pc = "list"
    /\ broadcast' = [broadcast EXCEPT !.batch = batch,
                         !.pc = IF batch = <<>> THEN "done" ELSE "send"]
    /\ UNCHANGED <<now, users, rows, balance, valid_from, expires_at, claimed,
                   videos_made, task, snap, freeTotal, freeDone, initial,
                   voices_made, admin_steps, wallet, thread, uncommitted,
                   last_seen>>

\* One turn of "for u in batch": send_message to u either returns (sent += 1)
\* or raises (failed += 1); after the last u of the batch, offset += 50.
BroadcastSend ==
    LET u == Head(broadcast.batch)
        rest == Tail(broadcast.batch)
    IN
    /\ broadcast.pc = "send"
    /\ \E ok \in BOOLEAN :
          /\ ~ok => broadcast.failed < MaxFailed
          /\ broadcast' =
                [broadcast EXCEPT
                    !.attempts = Append(@, u),
                    !.sent = IF ok THEN @ + 1 ELSE @,
                    !.failed = IF ok THEN @ ELSE @ + 1,
                    !.batch = rest,
                    !.offset = IF rest = <<>> THEN @ + BroadcastLimit ELSE @,
                    !.pc = IF rest = <<>> THEN "list" ELSE "send"]
    /\ UNCHANGED <<now, users, rows, balance, valid_from, expires_at, claimed,
                   videos_made, task, snap, freeTotal, freeDone, initial,
                   voices_made, admin_steps, wallet, thread, uncommitted,
                   last_seen>>

\* The lock section of upsert_user in the handler of an update of user u,
\* run while the broadcast awaits.
UpsertDuringBroadcast(u) ==
    /\ broadcast.pc \in {"list", "send"}
    /\ broadcast.visits < MaxVisits
    /\ users' = users \cup {u}
    /\ last_seen' = SeenNow(u)
    /\ broadcast' = [broadcast EXCEPT !.visits = @ + 1]
    /\ UNCHANGED <<now, rows, balance, valid_from, expires_at, claimed,
                   videos_made, task, snap, freeTotal, freeDone, initial,
                   voices_made, admin_steps, wallet, thread, uncommitted>>

NextBroadcast ==
    \/ BroadcastStart
    \/ BroadcastList
    \/ BroadcastSend
    \/ \E u \in Visitors : UpsertDuringBroadcast(u)

SpecBroadcast == InitBroadcast /\ [][NextBroadcast]_vars

\* =================================================================== claims
\* The lock section of its ledger function that task t executes in this step.
Effect(t) == task[t].pc = "locked" /\ task'[t].pc = "-"

\* The successful reservations among the concurrent callers.
Succeeded == {t \in DOMAIN task : task[t].pc = "-" /\ task[t].ret = TRUE}

\* handle_video task t has had its refund credited.
Refunded(t) ==
    \/ task[t].hpc \in {"refund", "no_file"} /\ task[t].pc = "-"
    \/ task[t].ref > 0

\* ------------------------------------------------------------------- C1
\* C1: under any interleaving of db_add_credits (amount >= 1),
\* db_remove_credits, db_deduct_video_credit and the lazy-expiry cleanup on one
\* account, the stored balance is never negative.
C1_BalanceNeverNegative == \A u \in UserIds : balance[u] >= 0

\* A removal larger than the balance has returned while the other task is
\* about to run the lock section of a reservation, on an empty balance.
C1_Witness ==
    \E t, x \in Tasks :
        /\ t # x
        /\ task[t].fn = "db_remove_credits" /\ task[t].pc = "-"
        /\ task[t].amt = MaxAmount
        /\ task[x].fn = "db_deduct_video_credit" /\ task[x].pc = "locked"
        /\ balance[1] = 0
        /\ 1 \in rows

\* ------------------------------------------------------------------- C2
\* C2: NReserve concurrent db_deduct_video_credit calls against a balance of
\* k < NReserve: successes and the balance always add up to k, and when all
\* have returned exactly k returned True, NReserve - k returned False and the
\* balance is 0.
C2_ExactlyKReservations ==
    /\ Cardinality(Succeeded) + balance[1] = initial[1]
    /\ (\A t \in DOMAIN task : task[t].pc = "-") =>
          /\ Cardinality(Succeeded) = initial[1]
          /\ Cardinality(DOMAIN task \ Succeeded) = NReserve - initial[1]
          /\ balance[1] = 0

\* All callers have returned, the balance was one short of their number, and
\* some caller was refused.
C2_Witness ==
    /\ \A t \in DOMAIN task : task[t].pc = "-"
    /\ initial[1] = NReserve - 1
    /\ \E t \in DOMAIN task : task[t].ret = FALSE
    /\ \E t \in DOMAIN task : task[t].ret = TRUE

\* ------------------------------------------------------------------- C3
\* C3: every handle_video attempt whose reservation succeeded and that did not
\* deliver its output has had the refund credited when the handler ends.
C3_NoReservationLeaked ==
    \A t \in Tasks :
        (task[t].h = "handle_video" /\ task[t].hpc = "done" /\ task[t].res
            /\ task[t].out # "sent")
        => task[t].ref >= 1

\* ------------------------------------------------------------------- C4
\* C4: a ledger function invoked on an account whose window had passed, and
\* whose window has still passed when the function runs its own lock section,
\* leaves the row as if the expiry reset had been applied first: balance 0 plus
\* its own effect, and no window but the one it sets itself.
C4_ExpiryAppliedFirst ==
    [][\A t \in Tasks :
          LET u == task[t].u
              f == task[t].fn
          IN
          (Effect(t) /\ f \in LedgerFunctions /\ task[t].exp0
              /\ u \in rows /\ Expired(u))
          => /\ balance'[u] = (IF f = "db_add_credits" THEN task[t].amt ELSE 0)
             /\ IF f = "db_set_validity"
                THEN /\ valid_from'[u] = task[t].start
                     /\ expires_at'[u] = task[t].start + task[t].amt * DAY
                ELSE /\ valid_from'[u] = NULL
                     /\ expires_at'[u] = NULL]_vars

\* ------------------------------------------------------------------- C5
\* C5: when db_deduct_video_credit finds balance < CREDITS_PER_VIDEO it returns
\* False and leaves the balance as it found it (while no other task changes
\* it), and handle_video then only reads the balance for its reply: it holds
\* no reservation, credits no refund, never reaches the transcoder and counts
\* no usage.
C5_InsufficientCredit ==
    \A t \in Tasks :
        LET r == task[t] IN
        /\ (r.h = "handle_video" /\ r.fn = "db_deduct_video_credit"
               /\ r.pc = "-" /\ snap[t] # NULL /\ snap[t] < CREDITS_PER_VIDEO)
           => /\ r.ret = FALSE
              /\ balance[r.u] = snap[t]
        /\ (r.h = "handle_video" /\ r.hpc = "reserve" /\ r.pc = "-"
               /\ r.ret = FALSE /\ snap[t] # NULL)
           => snap[t] < CREDITS_PER_VIDEO
        /\ (r.h = "handle_video" /\ (r.hpc = "low_credit" \/ r.out = "low"))
           => /\ r.fn = "db_get_credit"
              /\ ~r.res /\ r.ref = 0 /\ ~r.ran /\ ~r.inc
              /\ snap[t] # NULL => balance[r.u] = snap[t]

\* A fresh account (balance 0): the handler has ended with the low-credit
\* reply and the balance is still 0.
C5_Witness ==
    \E t \in Tasks :
        /\ task[t].h = "handle_video" /\ task[t].hpc = "done"
        /\ task[t].out = "low"
        /\ snap[t] = 0
        /\ balance[task[t].u] = 0

\* ------------------------------------------------------------------- C6
\* C6: a successful reservation from balance b >= CREDITS_PER_VIDEO leaves
\* b - CREDITS_PER_VIDEO, and once the handler's refund is credited the balance
\* is b again, as long as no other task changed the balance in between.
C6_RefundRestoresBalance ==
    \A t \in Tasks :
        (task[t].h = "handle_video" /\ task[t].res /\ snap[t] # NULL)
        => /\ snap[t] >= CREDITS_PER_VIDEO
           /\ balance[task[t].u] =
                 IF Refunded(t) THEN snap[t] ELSE snap[t] - CREDITS_PER_VIDEO

\* 2 -> 1 -> 2: the transcoder failed, the refund is credited, usage is not
\* counted.
C6_Witness ==
    \E t \in Tasks :
        /\ task[t].h = "handle_video" /\ task[t].hpc = "done"
        /\ task[t].out = "failed" /\ task[t].ran /\ ~task[t].inc
        /\ snap[t] = 2
        /\ balance[task[t].u] = 2

C8_LaterCallsAlreadyClaimed ==
    \A t \in Tasks :
        (task[t].h = "free_cmd" /\ task[t].late)
        => /\ task[t].hpc \notin {"oracle", "grant", "mark"}
           /\ task[t].fn \notin {"db_add_credits", "freebies_mark_claimed"}
           /\ task[t].ans = "-"
           /\ task[t].out \in {"-", "already"}
           /\ task[t].hpc = "done" => task[t].out = "already"

\* A later call has ended with the already-claimed reply; the balance is the
\* one grant.
C8_Witness ==
    \E t \in Tasks :
        /\ task[t].h = "free_cmd" /\ task[t].late
        /\ task[t].hpc = "done" /\ task[t].out = "already"
        /\ balance[task[t].u] = FREE_CREDITS

\* ------------------------------------------------------------------- C9
\* C9: when the oracle answers non-membership or fails, free_cmd ends with the
\* join reply in that step, and neither that step nor any later step of the
\* call changes the balance, the validity window or the claimed flag.
C9_FailClosed ==
    [][\A t \in Tasks :
          /\ (At(t, "free_cmd", "oracle") /\ task'[t] # task[t]
                 /\ task'[t].ans \in {"left", "error"})
             => /\ task'[t].hpc = "done" /\ task'[t].out = "join"
                /\ UNCHANGED <<balance, valid_from, expires_at, claimed, freeTotal>>
          /\ (task[t].h = "free_cmd" /\ task[t].ans \in {"left", "error"}
                 /\ task'[t] # task[t])
             => /\ task'[t] = Idle
                /\ UNCHANGED <<balance, valid_from, expires_at, claimed, freeTotal>>
      ]_vars

\* The oracle failed: the call has ended with the join reply, nothing was
\* granted and the account is still unclaimed.
C9_Witness ==
    \E t \in Tasks :
        /\ task[t].h = "free_cmd" /\ task[t].hpc = "done"
        /\ task[t].ans = "error" /\ task[t].out = "join"
        /\ claimed[task[t].u] = 0 /\ balance[task[t].u] = 0
        /\ freeTotal[task[t].u] = 0

\* ------------------------------------------------------------------ C10
\* C10: db_deduct_video_credit never deducts (returns True) from an account
\* whose expires_at is set and now >= expires_at at the moment of the
\* deduction.
C10_NoDeductionAfterExpiry ==
    [][\A t \in Tasks :
          (Effect(t) /\ task[t].fn = "db_deduct_video_credit"
              /\ task'[t].ret = TRUE)
          => ~Expired(task[t].u)]_vars

\* ------------------------------------------------------------------ C11
\* The conversion of task t has passed the transcoder and the delivery without
\* an error and is at "await stats_inc_video" / "await stats_inc_voice".
Counting(t) == task[t].hpc = "count" /\ task[t].ran

\* C11: videos_made and voices_made never decrease; a step that raises
\* videos_made belongs to a handle_video that is past its transcoder run and
\* its delivery, both without error (and likewise for voices_made and
\* handle_voice); that position is entered only from a delivery that did not
\* fail, which is entered only from a transcoder run that did not fail; and a
\* handle_video on its refund path counts nothing.
C11_CountersMonotonic ==
    [][\A u \in UserIds :
          /\ videos_made'[u] >= videos_made[u]
          /\ voices_made'[u] >= voices_made[u]
          /\ videos_made'[u] # videos_made[u]
                => \E t \in Tasks :
                      /\ task[t].h = "handle_video" /\ task[t].u = u
                      /\ task'[t] # task[t]
                      /\ Counting(t) /\ ~Refunded(t)
                      /\ videos_made'[u] = videos_made[u] + 1
          /\ voices_made'[u] # voices_made[u]
                => \E t \in Tasks :
                      /\ task[t].h = "handle_voice" /\ task[t].u = u
                      /\ task'[t] # task[t]
                      /\ Counting(t)
                      /\ voices_made'[u] = voices_made[u] + 1
          /\ \A t \in Tasks :
                task[t].h \in {"handle_video", "handle_voice"}
                => /\ (task'[t].hpc = "count" /\ task[t].hpc # "count")
                      => task[t].hpc = "deliver"
                   /\ (task'[t].hpc = "deliver" /\ task[t].hpc # "deliver")
                      => task[t].hpc = "transcode"
                   /\ task[t].hpc = "count"
                      => task'[t].hpc \in {"count", "done"}
          /\ \A t \in Tasks :
                (task[t].h = "handle_video" /\ task[t].u = u
                    /\ (Refunded(t) \/ task[t].fn = "db_add_credits"))
                => /\ ~task[t].inc /\ task[t].hpc # "count"
                   /\ task'[t] # task[t] => videos_made'[u] = videos_made[u]
      ]_vars

\* One video was converted, delivered and counted; another handle_video has
\* had its refund credited after the transcoder ran and an error was raised,
\* and the counter still reads one.
C11_Witness ==
    \E t \in Tasks :
        /\ task[t].h = "handle_video" /\ task[t].hpc = "done"
        /\ task[t].out = "failed" /\ task[t].ran /\ task[t].ref = 1
        /\ videos_made[task[t].u] = 1

\* ------------------------------------------------------------------ C12
\* C12: in handle_video and in handle_voice the transcoder is invoked only
\* after a credit reservation for that request has succeeded.
C12_TranscoderAfterReservation ==
    \A t \in Tasks :
        (task[t].h \in {"handle_video", "handle_voice"} /\ task[t].ran)
        => task[t].res

\* ------------------------------------------------------------------ C13
\* C13: db_set_validity replaces the window: its UPDATE leaves valid_from = t2
\* (the clock it read, between its invocation and now) and expires_at =
\* t2 + d2 * 86400, whatever window the row held before.
C13_SetValidityReplaces ==
    [][\A t \in Tasks :
          (Effect(t) /\ task[t].fn = "db_set_validity")
          => /\ task[t].start # NULL /\ task[t].start <= now
             /\ valid_from'[task[t].u] = task[t].start
             /\ expires_at'[task[t].u] = task[t].start + task[t].amt * 86400
      ]_vars

\* A db_get_credit, not yet left by its caller, has read the window set at
\* time 0 for 1 day; a db_set_validity of 1 day has since returned and the row
\* holds the window from 86400 to 2 * 86400: the old window is replaced, the
\* new one counts from the later call and not from the old expiry.
C13_Witness ==
    \E t, x \in Tasks :
        /\ task[t].fn = "db_set_validity" /\ task[t].pc = "-"
        /\ task[t].amt = 1
        /\ task[x].fn = "db_get_credit" /\ task[x].pc = "-"
        /\ task[x].h = "call" /\ task[x].u = task[t].u
        /\ task[x].ret[2] = 0 /\ task[x].ret[3] = 86400
        /\ valid_from[task[t].u] = 86400
        /\ expires_at[task[t].u] = 2 * 86400

\* ------------------------------------------------------------------ C14
\* C14: validity is only ever stored for a positive number of days: every
\* stored window satisfies expires_at > valid_from.
C14_WindowPositive ==
    \A u \in UserIds : expires_at[u] # NULL => expires_at[u] > valid_from[u]

\* ------------------------------------------------------------------ C15
\* C15: db_remove_credits(u, amount) returns and leaves the balance at 0 when
\* amount exceeds the balance it found, and at balance - amount otherwise.
C15_RemoveFloorsAtZero ==
    [][\A t \in Tasks :
          (Effect(t) /\ task[t].fn = "db_remove_credits")
          => LET u == task[t].u IN
             /\ task'[t].pc = "-"
             /\ balance'[u] = IF task[t].amt > balance[u]
                              THEN 0
                              ELSE balance[u] - task[t].amt
      ]_vars

\* A db_get_credit, not yet left by its caller, has read a balance of 1; a
\* db_remove_credits of 2 has since returned and the balance is 0.
C15_Witness ==
    \E t, x \in Tasks :
        /\ task[t].fn = "db_remove_credits" /\ task[t].pc = "-"
        /\ task[t].amt = 2
        /\ task[x].fn = "db_get_credit" /\ task[x].pc = "-"
        /\ task[x].h = "call" /\ task[x].u = task[t].u
        /\ task[x].ret[1] = 1
        /\ balance[task[t].u] = 0

\* ------------------------------------------------------------------ C16
\* C16: a db_get_credit invoked when the account's window had passed returns
\* (0, None, None); and whenever db_get_credit returns a non-null expires_at,
\* that expiry was later than the clock at the call's expiry test: the test
\* leaves no expiry that is not in the future, the row's expiry does not
\* change between the test and the SELECT, and the SELECT returns the row.
C16_GetCreditLazyExpiry ==
    [][\A t \in Tasks :
          LET u == task[t].u IN
          task[t].fn = "db_get_credit"
          => /\ (task[t].pc = "cleanup_if_expired" /\ task'[t].pc = "locked")
                => (expires_at'[u] = NULL \/ now < expires_at'[u])
             /\ (task[t].pc = "locked" /\ task'[t].pc = "locked")
                => expires_at'[u] = expires_at[u]
             /\ Effect(t)
                => /\ task'[t].ret = <<balance[u], valid_from[u], expires_at[u]>>
                   /\ task[t].exp0 => task'[t].ret = <<0, NULL, NULL>>
      ]_vars

\* Credits and a 1-day window granted at time 0; a db_get_credit invoked at
\* time 86400 has returned (0, None, None) and the row is reset.
C16_Witness ==
    \E t \in Tasks :
        /\ task[t].fn = "db_get_credit" /\ task[t].pc = "-"
        /\ task[t].exp0 /\ now = 86400
        /\ task[t].ret = <<0, NULL, NULL>>
        /\ balance[task[t].u] = 0 /\ expires_at[task[t].u] = NULL

\* ------------------------------------------------------------------ C17
\* C17: DB.get_credit called on a wallet whose window had passed at the time
\* of the call returns (0, None, None).
C17_SyncLazyExpiry ==
    \A th \in Threads :
        (thread[th].fn = "get_credit" /\ thread[th].pc = "-"
            /\ thread[th].exp0)
        => thread[th].ret = <<0, NULL, NULL>>

\* ------------------------------------------------------------------ C18
\* C18: under concurrent DB.deduct_for_video(u, 1) calls the credits of an
\* account never become negative (of two calls racing for the last credit at
\* most one returns True).
C18_SyncNoDoubleSpend == \A u \in UserIds : wallet[u].credits >= 0

\* ------------------------------------------------------------------ C19
\* C19: no step of admin_cmd, menu_click, admin_cb or admin_step_handler run
\* for a sender outside ADMIN_IDS changes a balance, a validity window or the
\* pending admin steps, or calls a ledger function that writes them; and no
\* sender outside ADMIN_IDS ever has a pending admin step.
C19_NonAdminMutatesNothing ==
    [][/\ \A c \in Callers \ ADMIN_IDS : admin_steps'[c] = NoStep
       /\ \A t \in Tasks :
             (task'[t] # task[t]
                 /\ task'[t].h \in {"admin_cmd", "menu_click", "admin_cb",
                                    "admin_step_handler"}
                 /\ task'[t].who \notin ADMIN_IDS)
             => /\ UNCHANGED <<balance, valid_from, expires_at, admin_steps>>
                /\ task'[t].fn \in {"-", "ensure_user"}
      ]_vars

\* The account holds a credit granted by the admin; a sender outside
\* ADMIN_IDS has pressed "admin:rem" on it and the callback has returned: the
\* credit is still there.
C19_Witness ==
    \E t \in Tasks :
        /\ task[t].h = "admin_cb" /\ task[t].hpc = "done"
        /\ task[t].who = 1 /\ task[t].act = "rem"
        /\ balance[task[t].tgt] = 1
        /\ admin_steps[2].type = "custom_credit"

\* ------------------------------------------------------------------ C20
\* C20: a sender outside ADMIN_IDS who invokes /admin, the admin panel button
\* or an admin: callback is answered with the "Admin only" reply.
C20_AdminOnlyReply ==
    \A t \in Tasks :
        (task[t].h \in {"admin_cmd", "menu_click", "admin_cb"}
            /\ task[t].hpc = "done" /\ task[t].who \notin ADMIN_IDS)
        => task[t].out = "admin_only"

\* ------------------------------------------------------------------ C21
\* handle_video task t awaits the download, the transcoder or the delivery.
Converting(t) ==
    /\ task[t].h = "handle_video" /\ task[t].pc = "-"
    /\ task[t].hpc \in {"download", "transcode", "deliver"}

\* The lock section that task x runs next.
LedgerStep(x) ==
    \/ EnsureUser(x)
    \/ CleanupIfExpired(x)
    \/ DbGetCredit(x)
    \/ DbAddCredits(x)
    \/ DbDeductVideoCredit(x)
    \/ StatsIncVideo(x)
    \/ StatsIncVoice(x)

C22_NoLostUpdate ==
    [][\A t \in Tasks :
          LET u == task[t].u
              f == task[t].fn
              b == balance[u]
          IN
          /\ (Effect(t) /\ u \in rows) =>
                /\ f = "db_add_credits" => balance'[u] = b + task[t].amt
                /\ f = "db_remove_credits"
                      => balance'[u] = Max(0, b - task[t].amt)
                /\ f = "db_deduct_video_credit"
                      => /\ task'[t].ret = (b >= CREDITS_PER_VIDEO)
                         /\ balance'[u] =
                               IF task'[t].ret THEN b - CREDITS_PER_VIDEO ELSE b
                /\ f \in {"db_get_credit", "db_set_validity",
                          "db_remove_validity"} => balance'[u] = b
          /\ (task'[t] # task[t] /\ ~Effect(t))
                => \A v \in UserIds :
                      balance'[v] # balance[v]
                      => /\ v = u /\ task[t].pc = "cleanup_if_expired"
                         /\ Expired(v) /\ balance'[v] = 0
      ]_vars

\* From an empty account: a grant of 2 and a reservation, both still with
\* their callers, have run their lock sections; the balance is 0 + 2 - 1.
C22_Witness ==
    \E t, x \in Tasks :
        /\ task[t].h = "call" /\ task[t].fn = "db_add_credits"
        /\ task[t].pc = "-" /\ task[t].amt = 2
        /\ task[x].h = "call" /\ task[x].fn = "db_deduct_video_credit"
        /\ task[x].pc = "-" /\ task[x].ret = TRUE
        /\ task[x].u = task[t].u
        /\ balance[task[t].u] = 1

\* ------------------------------------------------------------------ C23
\* C23: a handle_video whose reservation ended in a storage error holds no
\* reservation and has not run the transcoder, and the deduction is applied
\* neither to the balance the ledger functions read nor to an open
\* transaction that a later commit would make durable: the balance is the one
\* the reservation found, as long as no other task changed it.
C23_ReserveFailsAtomically ==
    \A t \in Tasks :
        (task[t].h = "handle_video" /\ task[t].out = "storage_error")
        => /\ ~task[t].res /\ ~task[t].ran /\ task[t].ref = 0
           /\ snap[t] # NULL
              => /\ balance[task[t].u] = snap[t]
                 /\ uncommitted[task[t].u] = 0

\* ------------------------------------------------------------------ C24
\* The accounts whose window is set and ends after time c.
ActiveAt(c) == {u \in rows : expires_at[u] # NULL /\ expires_at[u] > c}

\* C24: the list that list_premium returned holds no account twice, only
\* accounts whose expires_at is set and greater than the clock of the call,
\* in ascending order of expires_at; it holds all of them, or limit of them and then no account
\* left out expires sooner than one that is listed.
C24_ListPremium ==
    \A t \in Tasks :
        (task[t].fn = "list_premium" /\ task[t].hpc = "done")
        => LET r == task[t].ret
               listed == {r[i] : i \in DOMAIN r}
               ActiveNow == ActiveAt(task[t].start)
           IN
           /\ listed \subseteq ActiveNow
           /\ \A i, j \in DOMAIN r : i # j => r[i] # r[j]
           /\ \A i, j \in DOMAIN r :
                 i < j => expires_at[r[i]] <= expires_at[r[j]]
           /\ Len(r) = (IF Cardinality(ActiveNow) < task[t].amt
                        THEN Cardinality(ActiveNow) ELSE task[t].amt)
           /\ \A u \in ActiveNow \ listed, v \in listed :
                 expires_at[v] <= expires_at[u]

\* At time 86400 the three accounts expire at 86400 (passed), 2 * 86400 and
\* 2 * 86400; the list of at most 50 holds the two that are still valid.
C24_Witness ==
    \E t \in Tasks :
        /\ task[t].fn = "list_premium" /\ task[t].hpc = "done"
        /\ task[t].amt = 50 /\ now = 86400
        /\ task[t].start = 86400
        /\ \E u \in rows : expires_at[u] = 86400
        /\ Len(task[t].ret) = 2
        /\ expires_at[task[t].ret[1]] = 2 * 86400

\* ------------------------------------------------------------------ C25
\* C25: the list that DB.list_premium returned holds only wallets whose
\* validity_expire is set and greater than the clock of the call, the one
\* that expires soonest first.
C25_SyncListPremium ==
    \A th \in Threads :
        (thread[th].fn = "list_premium" /\ thread[th].pc = "-")
        => LET r == thread[th].ret IN
           /\ \A i \in DOMAIN r :
                 /\ wallet[r[i]].validity_expire # NULL
                 /\ wallet[r[i]].validity_expire > thread[th].tnow
           /\ \A i, j \in DOMAIN r :
                 i < j => wallet[r[i]].validity_expire
                             <= wallet[r[j]].validity_expire

\* ------------------------------------------------------------------ C26
\* Task t runs the lock section of upsert_user or of ensure_user in this step.
IdentityStep(t) ==
    /\ task'[t] # task[t]
    /\ \/ task[t].pc = "ensure_user"
       \/ task[t].hpc = "upsert_user" /\ task[t].pc = "-"

\* C26: a step of upsert_user or ensure_user leaves the balance, the window,
\* the claimed flag and the usage counters of every account that has its
\* rows as they were; a row it creates holds balance 0, no window, claimed 0
\* and counters 0; and it creates rows for no id but its argument.
C26_IdentityLeavesLedger ==
    [][\A t \in Tasks :
          IdentityStep(t)
          => /\ rows' \subseteq rows \cup {task[t].u}
             /\ \A u \in UserIds :
                   /\ u \in rows
                      => /\ balance'[u] = balance[u]
                         /\ valid_from'[u] = valid_from[u]
                         /\ expires_at'[u] = expires_at[u]
                         /\ claimed'[u] = claimed[u]
                         /\ videos_made'[u] = videos_made[u]
                         /\ voices_made'[u] = voices_made[u]
                   /\ (u \notin rows /\ u \in rows')
                      => /\ balance'[u] = 0
                         /\ valid_from'[u] = NULL /\ expires_at'[u] = NULL
                         /\ claimed'[u] = 0
                         /\ videos_made'[u] = 0 /\ voices_made'[u] = 0
      ]_vars

\* The account holds a credit and a window granted by the admin; its owner,
\* no admin, has sent /admin, and upsert_user with its ensure_user has
\* returned: the credit and the window are as they were.
C26_Witness ==
    \E t \in Tasks :
        /\ task[t].h = "admin_cmd" /\ task[t].hpc = "upserted"
        /\ task[t].pc = "-" /\ task[t].u = 1
        /\ 1 \in users /\ 1 \in rows
        /\ balance[1] = 1 /\ valid_from[1] = 0 /\ expires_at[1] = 86400

\* ------------------------------------------------------------------ C27
\* C27: balance and validity are independent.  No step of db_set_validity or
\* db_remove_validity changes a balance; no step of db_add_credits or
\* db_remove_credits changes a window; and no step of db_deduct_video_credit,
\* whether it returns True or False, changes the window of an account whose
\* window has not passed.
C27_IndependentAxes ==
    [][\A t \in Tasks :
          LET u == task[t].u
              f == task[t].fn
          IN
          (task'[t] # task[t] /\ task[t].pc # "-")
          => /\ f \in {"db_set_validity", "db_remove_validity"}
                => balance' = balance
             /\ f \in {"db_add_credits", "db_remove_credits"}
                => /\ valid_from' = valid_from
                   /\ expires_at' = expires_at
             /\ (f = "db_deduct_video_credit"
                   /\ (expires_at[u] = NULL \/ now < expires_at[u]))
                => /\ valid_from'[u] = valid_from[u]
                   /\ expires_at'[u] = expires_at[u]
      ]_vars

\* The account was granted 2 credits; a db_set_validity of 1 day and then a
\* reservation have returned at time 0: the balance is 1 and the window is
\* the one that was set.
C27_Witness ==
    \E t, x \in Tasks :
        /\ task[x].fn = "db_set_validity" /\ task[x].pc = "-"
        /\ task[x].amt = 1
        /\ task[t].fn = "db_deduct_video_credit" /\ task[t].pc = "-"
        /\ task[t].ret = TRUE /\ task[t].u = task[x].u
        /\ now = 0 /\ balance[task[t].u] = 1
        /\ valid_from[task[t].u] = 0 /\ expires_at[task[t].u] = 86400

\* ------------------------------------------------------------------ C28
\* C28: a db_add_credits(u, n) invoked on an account whose window had passed,
\* and has still passed when the credits are written, applies the expiry
\* reset before the credit: it leaves balance n and no window, so that the
\* next db_get_credit reports (n, None, None).
C28_AddAfterExpiryKept ==
    [][\A t \in Tasks :
          LET u == task[t].u IN
          (Effect(t) /\ task[t].fn = "db_add_credits" /\ task[t].exp0
              /\ u \in rows /\ Expired(u))
          => /\ balance'[u] = task[t].amt
             /\ valid_from'[u] = NULL /\ expires_at'[u] = NULL
             /\ ~Expired(u)'
      ]_vars

\* ------------------------------------------------------------------ C29
\* C29: a db_set_validity or db_remove_validity invoked on an account whose
\* window had passed, and has still passed when the window is written, leaves
\* the balance at 0: the stale balance is reset before the window is replaced
\* or cleared.
C29_NoRevivalByWindow ==
    [][\A t \in Tasks :
          LET u == task[t].u IN
          (Effect(t)
              /\ task[t].fn \in {"db_set_validity", "db_remove_validity"}
              /\ task[t].exp0 /\ u \in rows /\ Expired(u))
          => balance'[u] = 0
      ]_vars

\* ------------------------------------------------------------------ C30
\* C30: a handle_video whose reservation succeeded never has two refunds
\* credited, never has both a refund and its usage counted, never refunds
\* after its output was sent to the user, and when it ends it has either
\* counted the usage (the credit stays deducted) or credited one refund.
C30_ResolvedExactlyOnce ==
    \A t \in Tasks :
        (task[t].h = "handle_video" /\ task[t].res)
        => /\ task[t].ref <= 1
           /\ ~(task[t].inc /\ task[t].ref >= 1)
           /\ ~(task[t].out = "sent" /\ task[t].fn = "db_add_credits")
           /\ task[t].hpc = "done"
              => \/ task[t].inc /\ task[t].ref = 0
                 \/ ~task[t].inc /\ task[t].ref = 1

\* ------------------------------------------------------------------ C31
\* C31: voice conversion is free: no step of a handle_voice changes the balance
\* or the validity window of any account, whatever the outcome (missing file,
\* download, transcoder or delivery failure, cancellation, success); and a step
\* that raises voices_made is the stats_inc_voice of a handle_voice that has
\* passed its transcoder run and its delivery.
C31_VoiceIsFree ==
    [][\A t \in Tasks :
          (task[t].h = "handle_voice" /\ task'[t] # task[t])
          => /\ balance' = balance
             /\ valid_from' = valid_from
             /\ expires_at' = expires_at
             /\ voices_made' # voices_made
                   => /\ Counting(t)
                      /\ task[t].fn = "stats_inc_voice"
                      /\ voices_made' =
                            [voices_made EXCEPT ![task[t].u] = @ + 1]
      ]_vars

\* One handle_voice delivered and counted its voice note for an account that
\* holds credits, and another ended in its except block after the transcoder
\* ran; the credits are still there.
C31_Witness ==
    \E t \in Tasks, x \in Tasks :
        /\ task[t].h = "handle_voice" /\ task[t].hpc = "done"
        /\ task[t].out = "sent" /\ task[t].inc
        /\ voices_made[task[t].u] = 1 /\ balance[task[t].u] > 0
        /\ task[x].h = "handle_voice" /\ task[x].hpc = "done"
        /\ task[x].out = "failed" /\ task[x].ran
        /\ task[x].u = task[t].u

WizardActions == {"custom_credit", "custom_valid", "broadcast"}

\* C33: the wizard state is per admin and single-shot.  A selection by admin A
\* replaces A's pending step and no other entry.  admin_step_handler for a
\* message of A leaves A without a pending step, whether the text parses or
\* not, and leaves every other entry as it was; it starts a ledger mutation
\* only when a custom-credit or custom-validity step was pending for A, on the
\* target recorded in that step, in the very step that removes it; after that
\* the handler starts nothing but the db_get_credit of show_user_detail and
\* touches no entry.  Nothing else changes admin_steps.
C33_WizardSingleShot ==
    [][/\ \A t \in Tasks :
            LET r == task[t]
                step == admin_steps[r.who]
            IN
            /\ (At(t, "admin_cb", "answer") /\ task'[t] # r
                   /\ is_admin(r.who) /\ r.act \in WizardActions)
               => /\ admin_steps'[r.who].type = r.act
                  /\ r.act # "broadcast"
                        => admin_steps'[r.who].target = r.tgt
                  /\ \A c \in Callers \ {r.who} :
                        admin_steps'[c] = admin_steps[c]
            /\ (At(t, "admin_step_handler", "begin") /\ task'[t] # r)
               => /\ admin_steps'[r.who] = NoStep
                  /\ \A c \in Callers \ {r.who} :
                        admin_steps'[c] = admin_steps[c]
                  /\ task'[t].pc # "-"
                        => /\ is_admin(r.who)
                           /\ step.type \in {"custom_credit", "custom_valid"}
                           /\ task'[t].u = step.target
                           /\ task'[t].amt = parse_int(r.text)
                           /\ step.type = "custom_valid"
                                 => task'[t].fn = "db_set_validity"
                           /\ step.type = "custom_credit"
                                 => task'[t].fn =
                                      IF StartsWithMinus(r.text)
                                      THEN "db_remove_credits"
                                      ELSE "db_add_credits"
            /\ (r.h = "admin_step_handler" /\ r.hpc # "begin"
                   /\ task'[t] # r)
               => /\ admin_steps' = admin_steps
                  /\ (r.pc = "-" /\ task'[t].pc # "-")
                        => task'[t].fn = "db_get_credit"
       /\ admin_steps' # admin_steps
            => \E t \in Tasks :
                  /\ task'[t] # task[t]
                  /\ \/ At(t, "admin_cb", "answer")
                     \/ At(t, "admin_step_handler", "begin")
      ]_vars

\* Admin 2 answered a custom-credit prompt with a text that holds no digit:
\* the handler ended in its except block and the step of admin 2 is gone,
\* while the step that admin 3 selected is still pending.
C33_Witness ==
    \E t \in Tasks :
        /\ task[t].h = "admin_step_handler" /\ task[t].hpc = "done"
        /\ task[t].who = 2 /\ task[t].out = "error"
        /\ admin_steps[2] = NoStep
        /\ admin_steps[3].type = "custom_valid"

\* ------------------------------------------------------------------ C34
\* The number of delivery attempts the broadcast has made to user u.
Attempts(u) ==
    Cardinality({i \in 1..Len(broadcast.attempts) : broadcast.attempts[i] = u})

====
